---- MODULE Spec2Model ----
(***************************************************************************)
(* A model of the RingCT library: Pedersen commitments, the CLSAG and      *)
(* MLSAG ring signatures, the Borromean and Bulletproofs+ range proofs.    *)
(*                                                                         *)
(* The Ristretto group is scaled down to the module Z_q x Z_q over a       *)
(* prime q: a point <<x, y>> stands for x*G + y*E, where E is a second     *)
(* formal direction, so that two points hashed from different inputs are   *)
(* linearly independent unless their digests happen to be proportional.    *)
(* Byte strings are sequences of words; Blake2b is scaled down to a keyed  *)
(* word permutation absorbed word by word.                                 *)
(***************************************************************************)
EXTENDS Integers, Sequences, FiniteSets, TLC

(***************************************************************************)
(* curve25519_dalek: scalars and points                                    *)
(***************************************************************************)
\* the product of two primes is multiplied through its residues, so that no
\* intermediate product leaves the 32-bit integers: p_inv is p^-1 modulo q
CrtMul(a, b, p, q, p_inv) ==
    LET r1 == ((a % p) * (b % p)) % p
        r2 == ((a % q) * (b % q)) % q
        d == (((r2 - r1) % q) + q) % q
    IN  r1 + p * ((d * p_inv) % q)

\* the (scaled) order of the group, constants::BASEPOINT_ORDER, and its two
\* prime factors
ORDER_P == 32653
ORDER_Q == 32647
ORDER_P_INV == 27206
BASEPOINT_ORDER == ORDER_P * ORDER_Q
\* the number of values of one word of a byte string, and its two prime
\* factors (both 2 modulo 3)
WORD_P == 46337
WORD_Q == 46307
WORD == WORD_P * WORD_Q

Scalar_zero == 0
Scalar_one == 1

\* Scalar::reduce: the canonical representative
Reduce(s) == s % BASEPOINT_ORDER
\* Scalar::from(u64)
Scalar_from(n) == n % BASEPOINT_ORDER
SAdd(a, b) == (Reduce(a) + Reduce(b)) % BASEPOINT_ORDER
SNeg(a) == (BASEPOINT_ORDER - Reduce(a)) % BASEPOINT_ORDER
SSub(a, b) == SAdd(a, SNeg(b))
SMul(a, b) == CrtMul(Reduce(a), Reduce(b), ORDER_P, ORDER_Q, ORDER_P_INV)
\* Scalar::from_bytes_mod_order, of a 32-byte (one word) array
Scalar_from_bytes_mod_order(bytes) == bytes[1] % BASEPOINT_ORDER
\* Scalar::to_bytes / as_bytes: the stored bytes, unreduced
Scalar_bytes(s) == <<s>>

IDENTITY == <<0, 0>>
\* constants::RISTRETTO_BASEPOINT_POINT
G_POINT == <<1, 0>>
PAdd(p, q) == <<(p[1] + q[1]) % BASEPOINT_ORDER, (p[2] + q[2]) % BASEPOINT_ORDER>>
PNeg(p) == <<SNeg(p[1]), SNeg(p[2])>>
PSub(p, q) == PAdd(p, PNeg(q))
\* scalar * point
PMul(s, p) == <<SMul(s, p[1]), SMul(s, p[2])>>
\* &scalar * G, with G the basepoint table
G_mul(s) == PMul(s, G_POINT)

RECURSIVE PSumFrom(_, _)
PSumFrom(points, i) ==
    IF i > Len(points) THEN IDENTITY
    ELSE PAdd(points[i], PSumFrom(points, i + 1))
\* RistrettoPoint::sum
PSum(points) == PSumFrom(points, 1)

\* Iterator::sum of scalars
RECURSIVE SumScalarsFrom(_, _)
SumScalarsFrom(scalars, i) ==
    IF i > Len(scalars) THEN Scalar_zero
    ELSE SAdd(scalars[i], SumScalarsFrom(scalars, i + 1))
SumScalars(scalars) == SumScalarsFrom(scalars, 1)

RECURSIVE MsmFrom(_, _, _)
MsmFrom(scalars, points, i) ==
    IF i > Len(points) THEN IDENTITY
    ELSE PAdd(PMul(scalars[i], points[i]), MsmFrom(scalars, points, i + 1))
\* RistrettoPoint::multiscalar_mul (constant time)
multiscalar_mul(scalars, points) == MsmFrom(scalars, points, 1)
\* RistrettoPoint::vartime_multiscalar_mul
vartime_multiscalar_mul(scalars, points) == MsmFrom(scalars, points, 1)
\* VartimeRistrettoPrecomputation::vartime_mixed_multiscalar_mul over the
\* static point `base`
vartime_mixed_multiscalar_mul(base, static_scalars, dynamic_scalars, dynamic_points) ==
    PAdd(PMul(static_scalars[1], base), MsmFrom(dynamic_scalars, dynamic_points, 1))

\* RistrettoPoint::compress().to_bytes(): a bijection from points to 32-byte
\* (two word) strings that encodes the identity as zeros
compress(p) ==
    LET y2 == SAdd(p[2], p[2])
    IN  << SAdd(p[1], y2), SAdd(p[1], SAdd(y2, p[2])) >>

RECURSIVE ConcatFrom(_, _)
ConcatFrom(parts, i) ==
    IF i > Len(parts) THEN <<>> ELSE parts[i] \o ConcatFrom(parts, i + 1)
\* [a, b, ...].concat()
Concat(parts) == ConcatFrom(parts, 1)

\* lexicographic order of byte strings of equal length
RECURSIVE BytesLessFrom(_, _, _)
BytesLessFrom(a, b, i) ==
    IF i > Len(a) THEN FALSE
    ELSE IF a[i] # b[i] THEN a[i] < b[i]
    ELSE BytesLessFrom(a, b, i + 1)
BytesLess(a, b) == BytesLessFrom(a, b, 1)

(***************************************************************************)
(* curve.rs                                                                *)
(***************************************************************************)
encode_point(point) == compress(point)

\* double_and_compress_batch: every point is doubled, then compressed
batch_encode_points(points) ==
    [i \in 1..Len(points) |-> compress(PAdd(points[i], points[i]))]

(***************************************************************************)
(* hashes.rs                                                               *)
(***************************************************************************)
\* one round of the compression function on one residue of the words: a
\* permutation of the residues for every fixed input word (x -> x^3 permutes
\* them, 3 being prime to WORD_P - 1 and to WORD_Q - 1)
Cube(t, p) == (((t * t) % p) * t) % p
Mix(acc, x, p) == Cube((31 * acc + (x % p) + 17) % p, p)

\* st = [a, b, i]: the two residues of the chaining value before word i
RECURSIVE Absorb(_, _)
Absorb(st, msg) ==
    IF st.i > Len(msg) THEN st
    ELSE Absorb([a |-> Mix(st.a, msg[st.i], WORD_P),
                 b |-> Mix(st.b, msg[st.i], WORD_Q),
                 i |-> st.i + 1], msg)
\* the digest word for the initial value iv: the length is absorbed last
Blake2b(iv, msg) ==
    LET st == Absorb([a |-> iv % WORD_P, b |-> iv % WORD_Q, i |-> 1], msg)
    IN  Mix(st.a, Len(msg), WORD_P) + WORD_P * Mix(st.b, Len(msg), WORD_Q)
Blake2b256(msg) == <<Blake2b(256, msg)>>
Blake2b512(msg) == <<Blake2b(512, msg), Blake2b(513, msg)>>

\* RistrettoPoint::from_uniform_bytes
from_uniform_bytes(bytes) ==
    <<bytes[1] % BASEPOINT_ORDER, bytes[2] % BASEPOINT_ORDER>>

domain_h_bytes(msg, domain) == Blake2b256(msg \o domain)
domain_h_point(msg, domain) == from_uniform_bytes(Blake2b512(msg \o domain))
domain_h_scalar(msg, domain) == Scalar_from_bytes_mod_order(domain_h_bytes(msg, domain))
h_bytes(msg) == Blake2b256(msg)
h_point(msg) == from_uniform_bytes(Blake2b512(msg))
h_scalar(msg) == Scalar_from_bytes_mod_order(h_bytes(msg))

\* hashes::domains, as the bytes of the strings
SIGNATURE_KEY_IMAGE == <<107, 101, 121, 95, 105, 109, 103>>
CLSAG_LINKING == <<99, 108, 115, 97, 103, 95, 108, 105, 110, 107>>
CLSAG_AUXILIARY == <<99, 108, 115, 97, 103, 95, 97, 117, 120>>
CLSAG_COMMITMENT == <<99, 108, 115, 97, 103, 95, 99, 111, 109>>

(***************************************************************************)
(* pedersen.rs                                                             *)
(***************************************************************************)
PEDERSEN_G_POINT == G_POINT
PEDERSEN_H_POINT == h_point(Concat(<<encode_point(G_POINT)>>))

(***************************************************************************)
(* types.rs                                                                *)
(***************************************************************************)
\* Commitment::commit: (r * G) + (v * H)
commit(value, blinding) ==
    PAdd(PMul(blinding, PEDERSEN_G_POINT), PMul(Scalar_from(value), PEDERSEN_H_POINT))

\* impl Sum for Commitment
Commitment_sum(commitments) == PSum(commitments)

\* the balance of the commitments alone
is_balanced_without_extra(in_commitments, out_commitments, extra) ==
    Commitment_sum(in_commitments) = Commitment_sum(out_commitments)

\* Commitment::is_balanced
is_balanced(in_commitments, out_commitments, extra) ==
    LET out == out_commitments \o <<PMul(Scalar_from(extra), PEDERSEN_H_POINT)>>
    IN  Commitment_sum(in_commitments) = Commitment_sum(out)

\* Enote::new
Enote_new(owner, commitment) == [owner |-> owner, commitment |-> commitment]
\* EnoteKeys::new
EnoteKeys_new(key, value, blinding) ==
    [owner |-> key, value |-> value, blinding |-> blinding]
\* EnoteKeys::to_enote
to_enote(keys) == Enote_new(G_mul(keys.owner), commit(keys.value, keys.blinding))

(***************************************************************************)
(* signature/signature_utils.rs                                            *)
(***************************************************************************)
ZERO_POINT == G_mul(Scalar_zero)

\* hash to point, specific for key image
h_key_image_point(msg) == domain_h_point(msg, SIGNATURE_KEY_IMAGE)

get_key_image_points(encoded_pubs) ==
    [i \in 1..Len(encoded_pubs) |-> h_key_image_point(encoded_pubs[i])]

\* batch encode rings: <<linking, commitment>>
encode_rings(ring_l, ring_c) ==
    LET n == Len(ring_l)
        encoded_points == batch_encode_points(ring_l \o ring_c)
    IN  <<SubSeq(encoded_points, 1, n), SubSeq(encoded_points, n + 1, 2 * n)>>

\* <<owners, commitments>>
separate_ring(ring) ==
    << [i \in 1..Len(ring) |-> ring[i].owner],
       [i \in 1..Len(ring) |-> ring[i].commitment] >>

shift_commitments(unshifted_ring_c, pseudo_out) ==
    LET neg_pseudo_out == PSub(ZERO_POINT, pseudo_out)
    IN  [i \in 1..Len(unshifted_ring_c) |-> PAdd(unshifted_ring_c[i], neg_pseudo_out)]

\* the key image from the plain encoding of the public key
get_key_image_plain(private_key) ==
    LET public_key == G_mul(private_key)
    IN  PMul(private_key, h_key_image_point(encode_point(public_key)))

\* get_key_image: the key image of a private key
get_key_image(private_key) ==
    LET public_key == G_mul(private_key)
    IN  PMul(private_key, h_key_image_point(batch_encode_points(<<public_key>>)[1]))

\* EnoteKeys::get_key_image (types.rs)
EnoteKeys_get_key_image(keys) == get_key_image(keys.owner)

\* the 64-byte encodings owner || commitment
encoded_enotes(ring, encoded_ring_l, encoded_ring_c) ==
    [i \in 1..Len(ring) |-> encoded_ring_l[i] \o encoded_ring_c[i]]

\* a sortedness test that lets equal neighbours pass
ring_is_sorted_weak(ring, encoded_ring_l, encoded_ring_c) ==
    LET enc == encoded_enotes(ring, encoded_ring_l, encoded_ring_c)
    IN  \A i \in 1..(Len(enc) - 1) : ~BytesLess(enc[i + 1], enc[i])

\* windows(2).all(|enotes| enotes[0] < enotes[1])
ring_is_sorted(ring, encoded_ring_l, encoded_ring_c) ==
    LET enc == encoded_enotes(ring, encoded_ring_l, encoded_ring_c)
    IN  \A i \in 1..(Len(enc) - 1) : BytesLess(enc[i], enc[i + 1])

\* Vec::dedup of a sorted vector
RECURSIVE dedup(_)
dedup(v) ==
    IF Len(v) <= 1 THEN v
    ELSE IF v[1] = v[2] THEN dedup(Tail(v))
         ELSE <<v[1]>> \o dedup(Tail(v))

\* a sorted ring that keeps its duplicates
ring_as_sorted_kept(ring, encoded_ring_l, encoded_ring_c) ==
    LET enc == encoded_enotes(ring, encoded_ring_l, encoded_ring_c)
        sorted == SortSeq(enc, BytesLess)
        original_map(e) ==
            ring[CHOOSE i \in 1..Len(ring) :
                   enc[i] = e /\ \A k \in (i + 1)..Len(ring) : enc[k] # e]
    IN  [i \in 1..Len(sorted) |-> original_map(sorted[i])]

\* the sorted, duplicate-free ring: every encoding is mapped back to the
\* enote that was inserted for it last
ring_as_sorted(ring, encoded_ring_l, encoded_ring_c) ==
    LET enc == encoded_enotes(ring, encoded_ring_l, encoded_ring_c)
        sorted == dedup(SortSeq(enc, BytesLess))
        original_map(e) ==
            ring[CHOOSE i \in 1..Len(ring) :
                   enc[i] = e /\ \A k \in (i + 1)..Len(ring) : enc[k] # e]
    IN  [i \in 1..Len(sorted) |-> original_map(sorted[i])]

\* Ring::new
Ring_new == << >>

\* Ring::push
Ring_push(ring, value) == Append(ring, value)

\* Ring::insert: the enotes from `index` on move to the right
Ring_insert(ring, index, element) ==
    SubSeq(ring, 1, index) \o <<element>> \o SubSeq(ring, index + 1, Len(ring))

\* Ring::sort
Ring_sort(ring) ==
    LET sep == separate_ring(ring)
        enc == encode_rings(sep[1], sep[2])
    IN  ring_as_sorted(ring, enc[1], enc[2])

\* Ring::is_sorted
Ring_is_sorted(ring) ==
    LET sep == separate_ring(ring)
        enc == encode_rings(sep[1], sep[2])
    IN  ring_is_sorted(ring, enc[1], enc[2])

\* the position of the first enote of the owner, whatever its commitment
position_by_owner(ring, e) ==
    IF \E i \in 1..Len(ring) : ring[i].owner = e.owner
    THEN (CHOOSE i \in 1..Len(ring) :
            ring[i].owner = e.owner /\ \A k \in 1..(i - 1) : ring[k].owner # e.owner) - 1
    ELSE -1

\* ring.0.iter().position(|enote| enote == e): 0-based, -1 for None
position(ring, e) ==
    IF \E i \in 1..Len(ring) : ring[i] = e
    THEN (CHOOSE i \in 1..Len(ring) :
            ring[i] = e /\ \A k \in 1..(i - 1) : ring[k] # e) - 1
    ELSE -1

\* const FILLER_SCALAR: the group order, stored unreduced
FILLER_SCALAR == BASEPOINT_ORDER

\* scalars chained from `last` without the seed
RECURSIVE chain_scalars_unseeded(_, _, _)
chain_scalars_unseeded(last, seed, count) ==
    IF count = 0 THEN <<>>
    ELSE LET next == h_scalar(Scalar_bytes(last))
         IN  <<next>> \o chain_scalars_unseeded(next, seed, count - 1)

\* the deterministic scalars: count hashes chained from `last` over the seed
RECURSIVE chain_scalars(_, _, _)
chain_scalars(last, seed, count) ==
    IF count = 0 THEN <<>>
    ELSE LET next == h_scalar(Scalar_bytes(last) \o seed)
         IN  <<next>> \o chain_scalars(next, seed, count - 1)

Err(e) == [tag |-> "Err", err |-> e]

(***************************************************************************)
(* signature/clsag.rs                                                      *)
(***************************************************************************)
clsag_create_message(encoded_ring_l, encoded_ring_c, pseudo_out, key_image, auxiliary_point, msg) ==
    LET encoded_points == batch_encode_points(<<pseudo_out, key_image, auxiliary_point>>)
    IN  h_bytes(msg \o Concat(encoded_ring_l) \o Concat(encoded_ring_c) \o Concat(encoded_points))

\* the challenge of the next slot
clsag_challenge(m, left, right) ==
    domain_h_scalar(m \o Concat(batch_encode_points(<<left, right>>)), CLSAG_COMMITMENT)

\* the signing loop `for _ in 0..n`: st = [i, c_i, c_0, left, right],
\* `iter` iterations done
RECURSIVE clsag_sign_walk(_, _, _)
clsag_sign_walk(cx, st, iter) ==
    IF iter = cx.n THEN st
    ELSE
      LET i == (st.i + 1) % cx.n
          c_i == clsag_challenge(cx.m, st.left, st.right)
          c_0 == IF i = 0 THEN c_i ELSE st.c_0
      IN  IF i = cx.j
          THEN [st EXCEPT !.i = i, !.c_i = c_i, !.c_0 = c_0]
          ELSE clsag_sign_walk(cx,
                 [i |-> i, c_i |-> c_i, c_0 |-> c_0,
                  left |-> PAdd(G_mul(cx.s[i + 1]), PMul(c_i, cx.w_left[i + 1])),
                  right |-> multiscalar_mul(<<cx.s[i + 1], c_i>>,
                                            <<cx.key_image_points[i + 1], cx.w_right>>)],
                 iter + 1)

\* the closure of the signer's slot with the response of a plain sum
clsag_close_added(s_j, c_i, w_secret) == SAdd(s_j, SMul(c_i, w_secret))
\* the closure of the signer's slot: s[j] -= c_i * w_secret
clsag_close(s_j, c_i, w_secret) == SSub(s_j, SMul(c_i, w_secret))

clsag_sign_internal(ring, ring_l, unshifted_ring_c, encoded_ring_l, encoded_ring_c, enote_keys, pseudo_out_blinding, msg) ==
    LET n == Len(ring)
        commitment_key == SSub(enote_keys.blinding, pseudo_out_blinding)
        pseudo_out == commit(enote_keys.value, pseudo_out_blinding)
        ring_c == shift_commitments(unshifted_ring_c, pseudo_out)
        j == position(ring, to_enote(enote_keys))
    IN  IF j = -1 THEN Err("EnoteNotInRing")
        ELSE
          LET key_image_points == get_key_image_points(encoded_ring_l)
              key_image == PMul(enote_keys.owner, key_image_points[j + 1])
              auxiliary_point == PMul(commitment_key, key_image_points[j + 1])
              m == clsag_create_message(encoded_ring_l, encoded_ring_c, pseudo_out,
                                        key_image, auxiliary_point, msg)
              seed == Scalar_bytes(enote_keys.owner) \o Scalar_bytes(pseudo_out_blinding) \o m
              s == chain_scalars(FILLER_SCALAR, seed, n)
              linking_ac == domain_h_scalar(m, CLSAG_LINKING)
              auxiliary_ac == domain_h_scalar(m, CLSAG_AUXILIARY)
              w_left == [x \in 1..n |->
                           multiscalar_mul(<<linking_ac, auxiliary_ac>>, <<ring_l[x], ring_c[x]>>)]
              w_right == multiscalar_mul(<<linking_ac, auxiliary_ac>>, <<key_image, auxiliary_point>>)
              w_secret == SAdd(SMul(linking_ac, enote_keys.owner), SMul(auxiliary_ac, commitment_key))
              end == clsag_sign_walk(
                       [n |-> n, j |-> j, m |-> m, s |-> s, w_left |-> w_left,
                        w_right |-> w_right, key_image_points |-> key_image_points],
                       [i |-> j, c_i |-> Scalar_one, c_0 |-> Scalar_one,
                        left |-> G_mul(s[j + 1]),
                        right |-> PMul(s[j + 1], key_image_points[j + 1])],
                       0)
          IN  [tag |-> "Ok",
               pseudo_out |-> pseudo_out,
               signature |->
                 [key_image |-> key_image,
                  c_0 |-> end.c_0,
                  s |-> [s EXCEPT ![j + 1] = clsag_close(s[j + 1], end.c_i, w_secret)],
                  auxiliary |-> auxiliary_point]]

\* CLSAGSignature::sign
clsag_sign(ring, enote_keys, pseudo_out_blinding, msg) ==
    LET sep == separate_ring(ring)
        enc == encode_rings(sep[1], sep[2])
    IN  IF ~ring_is_sorted(ring, enc[1], enc[2]) THEN Err("UnsortedRing")
        ELSE clsag_sign_internal(ring, sep[1], sep[2], enc[1], enc[2],
                                 enote_keys, pseudo_out_blinding, msg)

\* CLSAGSignature::sign_unsorted
clsag_sign_unsorted(ring, enote_keys, pseudo_out_blinding, msg) ==
    LET sep == separate_ring(ring)
        enc == encode_rings(sep[1], sep[2])
    IN  clsag_sign_internal(ring, sep[1], sep[2], enc[1], enc[2],
                            enote_keys, pseudo_out_blinding, msg)

\* the verification loop `for i in 0..n` from st = [i, c_i]: the challenge
\* after slot n - 1
RECURSIVE clsag_verify_walk(_, _)
clsag_verify_walk(cx, st) ==
    IF st.i = cx.n THEN st.c_i
    ELSE
      LET i == st.i
          c_i == st.c_i
          left == vartime_mixed_multiscalar_mul(G_POINT, <<cx.s[i + 1]>>, <<c_i>>,
                                                <<cx.w_left[i + 1]>>)
          right == vartime_multiscalar_mul(<<cx.s[i + 1], c_i>>,
                                           <<cx.key_image_points[i + 1], cx.w_right>>)
      IN  clsag_verify_walk(cx, [i |-> i + 1, c_i |-> clsag_challenge(cx.m, left, right)])

\* the loops `for x in 0..n` and `for i in 0..n` index each of the vectors at
\* 0 .. n - 1: an index past the end of one of them aborts the call
reads_in_bounds(vectors, n) == \A k \in 1..Len(vectors) : n <= Len(vectors[k])

\* a verification that walks without the length test
clsag_verify_internal_unchecked(signature, ring, ring_l, unshifted_ring_c, encoded_ring_l, encoded_ring_c, pseudo_out, msg) ==
    LET ring_c == shift_commitments(unshifted_ring_c, pseudo_out)
    IN  IF ~reads_in_bounds(<<signature.s, ring_l, ring_c, encoded_ring_l>>, Len(ring))
        THEN [tag |-> "panic"]
        ELSE
          LET key_image_points == get_key_image_points(encoded_ring_l)
              m == clsag_create_message(encoded_ring_l, encoded_ring_c, pseudo_out,
                                        signature.key_image, signature.auxiliary, msg)
              n == Len(ring)
              linking_ac == domain_h_scalar(m, CLSAG_LINKING)
              auxiliary_ac == domain_h_scalar(m, CLSAG_AUXILIARY)
              w_left == [x \in 1..n |->
                           vartime_multiscalar_mul(<<linking_ac, auxiliary_ac>>,
                                                   <<ring_l[x], ring_c[x]>>)]
              w_right == vartime_multiscalar_mul(<<linking_ac, auxiliary_ac>>,
                                                 <<signature.key_image, signature.auxiliary>>)
              c_i == clsag_verify_walk(
                       [n |-> n, m |-> m, s |-> signature.s, w_left |-> w_left,
                        w_right |-> w_right, key_image_points |-> key_image_points],
                       [i |-> 0, c_i |-> signature.c_0])
          IN  IF c_i = signature.c_0 THEN [tag |-> "Ok"] ELSE Err("Invalid")

clsag_verify_internal(signature, ring, ring_l, unshifted_ring_c, encoded_ring_l, encoded_ring_c, pseudo_out, msg) ==
    LET ring_c == shift_commitments(unshifted_ring_c, pseudo_out)
    IN  IF Len(signature.s) # Len(ring) THEN Err("Malformed")
        ELSE IF ~reads_in_bounds(<<signature.s, ring_l, ring_c, encoded_ring_l>>, Len(ring))
        THEN [tag |-> "panic"]
        ELSE
          LET key_image_points == get_key_image_points(encoded_ring_l)
              m == clsag_create_message(encoded_ring_l, encoded_ring_c, pseudo_out,
                                        signature.key_image, signature.auxiliary, msg)
              n == Len(ring)
              linking_ac == domain_h_scalar(m, CLSAG_LINKING)
              auxiliary_ac == domain_h_scalar(m, CLSAG_AUXILIARY)
              w_left == [x \in 1..n |->
                           vartime_multiscalar_mul(<<linking_ac, auxiliary_ac>>,
                                                   <<ring_l[x], ring_c[x]>>)]
              w_right == vartime_multiscalar_mul(<<linking_ac, auxiliary_ac>>,
                                                 <<signature.key_image, signature.auxiliary>>)
              c_i == clsag_verify_walk(
                       [n |-> n, m |-> m, s |-> signature.s, w_left |-> w_left,
                        w_right |-> w_right, key_image_points |-> key_image_points],
                       [i |-> 0, c_i |-> signature.c_0])
          IN  IF c_i = signature.c_0 THEN [tag |-> "Ok"] ELSE Err("Invalid")

\* CLSAGSignature::verify
clsag_verify(signature, ring, pseudo_out, msg) ==
    LET sep == separate_ring(ring)
        enc == encode_rings(sep[1], sep[2])
    IN  IF ~ring_is_sorted(ring, enc[1], enc[2]) THEN Err("UnsortedRing")
        ELSE clsag_verify_internal(signature, ring, sep[1], sep[2], enc[1], enc[2],
                                   pseudo_out, msg)

\* the unsorted entry point with the guard of the sorted one
clsag_verify_unsorted_guarded(signature, ring, pseudo_out, msg) ==
    clsag_verify(signature, ring, pseudo_out, msg)

\* CLSAGSignature::verify_unsorted
clsag_verify_unsorted(signature, ring, pseudo_out, msg) ==
    LET sep == separate_ring(ring)
        enc == encode_rings(sep[1], sep[2])
    IN  clsag_verify_internal(signature, ring, sep[1], sep[2], enc[1], enc[2],
                              pseudo_out, msg)

(***************************************************************************)
(* signature/mlsag.rs                                                      *)
(***************************************************************************)
mlsag_create_message(encoded_ring_l, encoded_ring_c, pseudo_out, key_image, msg) ==
    LET encoded_points == batch_encode_points(<<pseudo_out, key_image>>)
    IN  h_bytes(msg \o Concat(encoded_ring_l) \o Concat(encoded_ring_c) \o Concat(encoded_points))

\* the challenge of the next slot
mlsag_challenge(m, left, right, c_i) ==
    LET next_e == batch_encode_points(<<left, right, c_i>>)
    IN  h_scalar(m \o next_e[1] \o next_e[2] \o next_e[3])

\* the signing loop `for _ in 0..n`: st = [i, e, left, right, c_i],
\* `iter` iterations done
RECURSIVE mlsag_sign_walk(_, _, _)
mlsag_sign_walk(cx, st, iter) ==
    IF iter = cx.n THEN st
    ELSE
      LET i == (st.i + 1) % cx.n
          e_i == mlsag_challenge(cx.m, st.left, st.right, st.c_i)
          e == [st.e EXCEPT ![i + 1] = e_i]
      IN  IF i = cx.j
          THEN [st EXCEPT !.i = i, !.e = e]
          ELSE mlsag_sign_walk(cx,
                 [i |-> i, e |-> e,
                  left |-> PAdd(G_mul(cx.s_l[i + 1]), PMul(e_i, cx.ring_l[i + 1])),
                  right |-> multiscalar_mul(<<cx.s_l[i + 1], e_i>>,
                                            <<cx.key_image_points[i + 1], cx.key_image>>),
                  c_i |-> PSub(PMul(cx.s_c[i + 1], PEDERSEN_G_POINT),
                               PMul(e_i, cx.ring_c[i + 1]))],
                 iter + 1)

\* the closure of the signer's slot on the linking side:
\* s_l[j] -= enote_keys.owner * e[j]
mlsag_close_l(s_l_j, owner, e_j) == SSub(s_l_j, SMul(owner, e_j))
\* the closure on the commitment side with the challenge of the signer's slot
\* in the place of the difference
mlsag_close_c_plain(s_c_j, commitment_key, c_start, e_j) ==
    SSub(s_c_j, SMul(commitment_key, e_j))
\* the closure of the signer's slot on the commitment side:
\* s_c[j] -= commitment_key * (c_start - e[j])
mlsag_close_c(s_c_j, commitment_key, c_start, e_j) ==
    SSub(s_c_j, SMul(commitment_key, SSub(c_start, e_j)))

mlsag_sign_internal(ring, ring_l, unshifted_ring_c, encoded_ring_l, encoded_ring_c, enote_keys, pseudo_out_blinding, msg) ==
    LET n == Len(ring)
        commitment_key == SSub(enote_keys.blinding, pseudo_out_blinding)
        pseudo_out == commit(enote_keys.value, pseudo_out_blinding)
        ring_c == shift_commitments(unshifted_ring_c, pseudo_out)
        j == position(ring, to_enote(enote_keys))
    IN  IF j = -1 THEN Err("EnoteNotInRing")
        ELSE
          LET key_image_points == get_key_image_points(encoded_ring_l)
              key_image == PMul(enote_keys.owner, key_image_points[j + 1])
              m == mlsag_create_message(encoded_ring_l, encoded_ring_c, pseudo_out,
                                        key_image, msg)
              seed == Scalar_bytes(enote_keys.owner) \o Scalar_bytes(pseudo_out_blinding) \o m
              s_l == chain_scalars(FILLER_SCALAR, seed, n)
              s_c == chain_scalars(s_l[n], seed, n)
              c_start == h_scalar(Scalar_bytes(s_c[n]) \o seed)
              end == mlsag_sign_walk(
                       [n |-> n, j |-> j, m |-> m, s_l |-> s_l, s_c |-> s_c,
                        ring_l |-> ring_l, ring_c |-> ring_c,
                        key_image_points |-> key_image_points, key_image |-> key_image],
                       [i |-> j, e |-> [x \in 1..n |-> FILLER_SCALAR],
                        left |-> G_mul(s_l[j + 1]),
                        right |-> PMul(s_l[j + 1], key_image_points[j + 1]),
                        c_i |-> PAdd(PMul(s_c[j + 1], PEDERSEN_G_POINT),
                                     PMul(SNeg(c_start), ring_c[j + 1]))],
                       0)
              e == end.e
          IN  [tag |-> "Ok",
               pseudo_out |-> pseudo_out,
               signature |->
                 [key_image |-> key_image,
                  e_0 |-> e[1],
                  s |-> << [s_l EXCEPT ![j + 1] = mlsag_close_l(s_l[j + 1], enote_keys.owner, e[j + 1])],
                           [s_c EXCEPT ![j + 1] =
                              mlsag_close_c(s_c[j + 1], commitment_key, c_start, e[j + 1])] >>]]

\* MLSAGSignature::sign
mlsag_sign(ring, enote_keys, pseudo_out_blinding, msg) ==
    LET sep == separate_ring(ring)
        enc == encode_rings(sep[1], sep[2])
    IN  IF ~ring_is_sorted(ring, enc[1], enc[2]) THEN Err("UnsortedRing")
        ELSE mlsag_sign_internal(ring, sep[1], sep[2], enc[1], enc[2],
                                 enote_keys, pseudo_out_blinding, msg)

\* MLSAGSignature::sign_unsorted
mlsag_sign_unsorted(ring, enote_keys, pseudo_out_blinding, msg) ==
    LET sep == separate_ring(ring)
        enc == encode_rings(sep[1], sep[2])
    IN  mlsag_sign_internal(ring, sep[1], sep[2], enc[1], enc[2],
                            enote_keys, pseudo_out_blinding, msg)

\* MLSAGSignature::sign_and_sort: the result, and the ring the caller is left
\* with
mlsag_sign_and_sort(ring, enote_keys, pseudo_out_blinding, msg) ==
    LET sep == separate_ring(ring)
        enc == encode_rings(sep[1], sep[2])
        sorted == ring_as_sorted(ring, enc[1], enc[2])
    IN  [ring |-> sorted,
         result |-> mlsag_sign_internal(sorted, sep[1], sep[2], enc[1], enc[2],
                                        enote_keys, pseudo_out_blinding, msg)]

\* the verification loop `for i in 0..ring.0.len()` from st = [i, e_i]: the
\* challenge after the last slot
RECURSIVE mlsag_verify_walk(_, _)
mlsag_verify_walk(cx, st) ==
    IF st.i = cx.n THEN st.e_i
    ELSE
      LET i == st.i
          e_i == st.e_i
          left == vartime_mixed_multiscalar_mul(G_POINT, <<cx.s_l[i + 1]>>, <<e_i>>,
                                                <<cx.ring_l[i + 1]>>)
          right == vartime_multiscalar_mul(<<cx.s_l[i + 1], e_i>>,
                                           <<cx.key_image_points[i + 1], cx.key_image>>)
          c_i == vartime_mixed_multiscalar_mul(PEDERSEN_G_POINT, <<cx.s_c[i + 1]>>,
                                               <<SNeg(e_i)>>, <<cx.ring_c[i + 1]>>)
      IN  mlsag_verify_walk(cx, [i |-> i + 1, e_i |-> mlsag_challenge(cx.m, left, right, c_i)])

mlsag_verify_internal(signature, ring, ring_l, unshifted_ring_c, encoded_ring_l, encoded_ring_c, pseudo_out, msg) ==
    LET s_l == signature.s[1]
        s_c == signature.s[2]
        ring_c == shift_commitments(unshifted_ring_c, pseudo_out)
    IN  IF Len(s_l) # Len(s_c) \/ Len(s_l) # Len(ring) THEN Err("Malformed")
        ELSE IF ~reads_in_bounds(<<s_l, s_c, ring_l, ring_c, encoded_ring_l>>, Len(ring))
        THEN [tag |-> "panic"]
        ELSE
          LET key_image == signature.key_image
              key_image_points == get_key_image_points(encoded_ring_l)
              m == mlsag_create_message(encoded_ring_l, encoded_ring_c, pseudo_out,
                                        key_image, msg)
              e_i == mlsag_verify_walk(
                       [n |-> Len(ring), m |-> m, s_l |-> s_l, s_c |-> s_c,
                        ring_l |-> ring_l, ring_c |-> ring_c,
                        key_image_points |-> key_image_points, key_image |-> key_image],
                       [i |-> 0, e_i |-> signature.e_0])
          IN  IF e_i = signature.e_0 THEN [tag |-> "Ok"] ELSE Err("Invalid")

\* MLSAGSignature::verify
mlsag_verify(signature, ring, pseudo_out, msg) ==
    LET sep == separate_ring(ring)
        enc == encode_rings(sep[1], sep[2])
    IN  IF ~ring_is_sorted(ring, enc[1], enc[2]) THEN Err("UnsortedRing")
        ELSE mlsag_verify_internal(signature, ring, sep[1], sep[2], enc[1], enc[2],
                                   pseudo_out, msg)

\* MLSAGSignature::verify_unsorted
mlsag_verify_unsorted(signature, ring, pseudo_out, msg) ==
    LET sep == separate_ring(ring)
        enc == encode_rings(sep[1], sep[2])
    IN  mlsag_verify_internal(signature, ring, sep[1], sep[2], enc[1], enc[2],
                              pseudo_out, msg)

(***************************************************************************)
(* rangeproof/mod.rs, rangeproof/borromean.rs                              *)
(***************************************************************************)
\* half the bit range of the (scaled) u64
HalfBitRange == 2
\* pub const BIT_RANGE
BIT_RANGE == 2 * HalfBitRange
\* the largest value of a signed integer of that width
MAX_VALUE_signed == (2 ^ (BIT_RANGE - 1)) - 1
\* pub const MAX_VALUE = ((1u128 << BIT_RANGE) - 1) as u64
MAX_VALUE == (2 ^ BIT_RANGE) - 1
\* the (scaled) u64 values: the integers of BIT_RANGE bits
U64 == 0..((2 ^ BIT_RANGE) - 1)
NUMBER_OF_PROOF_DIGITS == BIT_RANGE \div 2

\* curve.rs random_scalar(): draw number k of the random tape `tape`
random_scalar(tape, k) == h_scalar(<<114, 110, 103, tape, k>>)

\* the loop of quaternary: st = [number, x, digits, overrun]; overrun is the
\* write past the end of digits
\* one iteration taken in base 2
quaternary_step_binary(st) ==
    LET remainder == st.number % 2
    IN  IF st.x >= NUMBER_OF_PROOF_DIGITS THEN [st EXCEPT !.overrun = TRUE]
        ELSE [number |-> (st.number - remainder) \div 2,
              x |-> st.x + 1,
              digits |-> [st.digits EXCEPT ![st.x + 1] = remainder],
              overrun |-> FALSE]

\* one iteration of the loop, entered with number != 0
quaternary_step(st) ==
    LET remainder == st.number % 4
    IN  IF st.x >= NUMBER_OF_PROOF_DIGITS THEN [st EXCEPT !.overrun = TRUE]
        ELSE [number |-> (st.number - remainder) \div 4,
              x |-> st.x + 1,
              digits |-> [st.digits EXCEPT ![st.x + 1] = remainder],
              overrun |-> FALSE]

RECURSIVE quaternary_loop(_)
quaternary_loop(st) ==
    IF st.number = 0 \/ st.overrun THEN st
    ELSE quaternary_loop(quaternary_step(st))

\* fn quaternary: the base-4 digits, least significant first
quaternary(n) ==
    quaternary_loop([number |-> n, x |-> 0,
                     digits |-> [i \in 1..NUMBER_OF_PROOF_DIGITS |-> 0],
                     overrun |-> FALSE]).digits

\* BorromeanHTable::new: positive[i][j] = j * 4^i * H, negative[i][j] its
\* negation (i and j from 0)
BORROMEAN_H_TABLE ==
    LET zero == PMul(Scalar_from(0), PEDERSEN_G_POINT)
        pos == [i \in 1..NUMBER_OF_PROOF_DIGITS |->
                  LET n == Scalar_from(4 ^ (i - 1))
                  IN  << zero,
                         PMul(n, PEDERSEN_H_POINT),
                         PMul(SAdd(n, n), PEDERSEN_H_POINT),
                         PMul(SAdd(SAdd(n, n), n), PEDERSEN_H_POINT) >>]
    IN  [positive |-> pos,
         negative |-> [i \in 1..NUMBER_OF_PROOF_DIGITS |-> [j \in 1..4 |-> PNeg(pos[i][j])]]]

chameleon_h(m, e, s, p) ==
    h_scalar(m \o encode_point(PAdd(G_mul(s), PMul(e, p))))

vartime_chameleon_h(m, e, s, p) ==
    h_scalar(m \o encode_point(vartime_mixed_multiscalar_mul(G_POINT, <<s>>, <<e>>, <<p>>)))

\* groups: a sequence of <<e, s, p>>
multi_chameleon_h(m, groups) ==
    LET points == [g \in 1..Len(groups) |->
                     PAdd(G_mul(groups[g][2]), PMul(groups[g][1], groups[g][3]))]
    IN  h_scalar(m \o Concat(batch_encode_points(points)))

vartime_multi_chameleon_h(m, groups) ==
    LET points == [g \in 1..Len(groups) |->
                     vartime_mixed_multiscalar_mul(G_POINT, <<groups[g][2]>>,
                                                   <<groups[g][1]>>, <<groups[g][3]>>)]
    IN  h_scalar(m \o Concat(batch_encode_points(points)))

create_m(rings, msg) ==
    h_bytes(Concat([i \in 1..Len(rings) |-> Concat(batch_encode_points(rings[i]))]) \o msg)

\* `for j in from..to { eij = chameleon_h(&m, eij, s[j], ring[j]) }`:
\* st = [j, eij]
RECURSIVE chameleon_walk(_, _, _, _, _)
chameleon_walk(m, s_ring, members, to, st) ==
    IF st.j >= to THEN st.eij
    ELSE chameleon_walk(m, s_ring, members, to,
                        [j |-> st.j + 1,
                         eij |-> chameleon_h(m, st.eij, s_ring[st.j + 1], members[st.j + 1])])

RECURSIVE vartime_chameleon_walk(_, _, _, _, _)
vartime_chameleon_walk(m, s_ring, members, to, st) ==
    IF st.j >= to THEN st.eij
    ELSE vartime_chameleon_walk(m, s_ring, members, to,
                        [j |-> st.j + 1,
                         eij |-> vartime_chameleon_h(m, st.eij, s_ring[st.j + 1],
                                                     members[st.j + 1])])

\* the tie of a ring with the difference subtracted
borromean_tie_subtracted(s_ij, sk_i, e_start_i, eij) ==
    SSub(s_ij, SMul(sk_i, SSub(e_start_i, eij)))
\* the tie of a ring: s[i][indices[i]] += sk[i] * (e_start[i] - eij)
borromean_tie(s_ij, sk_i, e_start_i, eij) ==
    SAdd(s_ij, SMul(sk_i, SSub(e_start_i, eij)))

\* fn borromean_sign; its random scalars are the draws of `tape` from number
\* `drawn` on
borromean_sign(rings, sk, indices, msg, tape, drawn) ==
    LET m == create_m(rings, msg)
        s == [i \in 1..NUMBER_OF_PROOF_DIGITS |->
                [j \in 1..4 |-> random_scalar(tape, drawn + 4 * (i - 1) + (j - 1))]]
        e_start == [i \in 1..Len(rings) |->
                      random_scalar(tape, drawn + 4 * NUMBER_OF_PROOF_DIGITS + (i - 1))]
        n(i) == Len(rings[i]) - 1
        e_0 == multi_chameleon_h(m,
                 [i \in 1..Len(rings) |->
                    << chameleon_walk(m, s[i], rings[i], n(i),
                                      [j |-> indices[i], eij |-> e_start[i]]),
                       s[i][n(i) + 1], rings[i][n(i) + 1] >>])
        tied(i) ==
            LET eij == chameleon_walk(m, s[i], rings[i], indices[i], [j |-> 0, eij |-> e_0])
            IN  [s[i] EXCEPT ![indices[i] + 1] =
                   borromean_tie(s[i][indices[i] + 1], sk[i], e_start[i], eij)]
    IN  [e_0 |-> e_0,
         s |-> [i \in 1..NUMBER_OF_PROOF_DIGITS |-> IF i <= Len(rings) THEN tied(i) ELSE s[i]]]

\* fn borromean_verify
borromean_verify(rings, sig, msg) ==
    LET m == create_m(rings, msg)
        n(i) == Len(rings[i]) - 1
        e_0 == vartime_multi_chameleon_h(m,
                 [i \in 1..Len(rings) |->
                    << vartime_chameleon_walk(m, sig.s[i], rings[i], n(i),
                                              [j |-> 0, eij |-> sig.e_0]),
                       sig.s[i][n(i) + 1], rings[i][n(i) + 1] >>])
    IN  IF e_0 = sig.e_0 THEN [tag |-> "Ok"] ELSE Err("Invalid")

\* blindings that are all drawn from the tape, the last one too
RECURSIVE digit_blindings_drawn(_, _, _)
digit_blindings_drawn(blinding, tape, st) ==
    IF st.i = NUMBER_OF_PROOF_DIGITS THEN st.r
    ELSE digit_blindings_drawn(blinding, tape,
                               [i |-> st.i + 1, r |-> Append(st.r, random_scalar(tape, st.i))])

\* the blinding factors r of the digits: random but for the last, which makes
\* them sum to `blinding`; st = [i, r]
RECURSIVE digit_blindings(_, _, _)
digit_blindings(blinding, tape, st) ==
    IF st.i = NUMBER_OF_PROOF_DIGITS THEN st.r
    ELSE LET r_i == IF st.i = NUMBER_OF_PROOF_DIGITS - 1
                    THEN SSub(blinding, SumScalars(st.r))
                    ELSE random_scalar(tape, st.i)
         IN  digit_blindings(blinding, tape, [i |-> st.i + 1, r |-> Append(st.r, r_i)])

\* the loop over the digits in BorromeanRangeProof::prove: the blindings r,
\* the digit commitments c and the rings
borromean_prove_rings(value, blinding, tape) ==
    LET digits == quaternary(value)
        r == digit_blindings(blinding, tape, [i |-> 0, r |-> << >>])
        c_0(i) == PMul(r[i], PEDERSEN_G_POINT)
        c == [i \in 1..NUMBER_OF_PROOF_DIGITS |->
                PAdd(c_0(i), BORROMEAN_H_TABLE.positive[i][digits[i] + 1])]
    IN  [digits |-> digits, r |-> r, c |-> c,
         rings |-> [i \in 1..NUMBER_OF_PROOF_DIGITS |->
                      <<c[i]>> \o
                      [j \in 1..3 |-> IF j = digits[i] THEN c_0(i)
                                      ELSE PAdd(BORROMEAN_H_TABLE.negative[i][j + 1], c[i])]]]

\* BorromeanRangeProof::prove, with the random tape it draws from
borromean_prove(value, blinding, tape) ==
    IF value > MAX_VALUE THEN Err("OutOfRange")
    ELSE
      LET built == borromean_prove_rings(value, blinding, tape)
          c_total == PSum(built.c)
      IN  [tag |-> "Ok",
           commitment |-> c_total,
           proof |-> [c_i |-> built.c,
                      sig |-> borromean_sign(built.rings, built.r, built.digits,
                                             encode_point(c_total),
                                             tape, NUMBER_OF_PROOF_DIGITS - 1)]]

\* the rings BorromeanRangeProof::verify rebuilds from the digit commitments
borromean_verify_rings(commitments) ==
    [i \in 1..Len(commitments) |->
        << commitments[i],
           PAdd(BORROMEAN_H_TABLE.negative[i][2], commitments[i]),
           PAdd(BORROMEAN_H_TABLE.negative[i][3], commitments[i]),
           PAdd(BORROMEAN_H_TABLE.negative[i][4], commitments[i]) >>]

\* BorromeanRangeProof::verify
borromean_range_verify(commitment, proof) ==
    LET commitments == proof.c_i
    IN  IF commitment # PSum(commitments) THEN Err("Invalid")
        ELSE borromean_verify(borromean_verify_rings(commitments), proof.sig,
                              encode_point(commitment))

(***************************************************************************)
(* rangeproof/bulletplus.rs, and the contract of the bulletproofs_plus     *)
(* crate that it calls                                                     *)
(***************************************************************************)
\* log2 of the (scaled) largest aggregation
MaxAggregationPower == 2
\* pub const MAX_AGGREGATION_SIZE
MAX_AGGREGATION_SIZE == 2 ^ MaxAggregationPower
\* const MAX_BATCH_GROUP_SIZE
MAX_BATCH_GROUP_SIZE == MAX_AGGREGATION_SIZE
TRANSCRIPT_LABEL == "Bulletproofs+ Rangeproofs"
ZERO_COMMITMENT_OPENING == [value |-> 0, blinding |-> Scalar_zero]
ZERO_COMMITMENT == PMul(Scalar_zero, G_POINT)

\* usize::is_power_of_two
is_power_of_two(k) == \E e \in 0..k : 2 ^ e = k

\* (x as f64).log2() as usize, for x >= 1: the floor of the logarithm
floor_log2(x) == CHOOSE e \in 0..x : 2 ^ e <= x /\ x < 2 ^ (e + 1)

\* the logarithm rounded down
ceil_log2_down(len) ==
    IF len = 0 THEN 0
    ELSE CHOOSE e \in 0..len : 2 ^ e <= len /\ len < 2 ^ (e + 1)

\* (len as f64).log2().ceil() as u32: the logarithm rounded up; the cast of
\* the negative infinity that a length of 0 gives saturates to 0
ceil_log2(len) ==
    IF len = 0 THEN 0
    ELSE CHOOSE e \in 0..len : len <= 2 ^ e /\ (e = 0 \/ 2 ^ (e - 1) < len)

\* generate_range_parameters: RangeParameters::init(BIT_RANGE, 2^i, gens) for
\* i in 0 ..= log2(MAX_AGGREGATION_SIZE)
RANGE_PARAMETERS ==
    [i \in 1..(floor_log2(MAX_AGGREGATION_SIZE) + 1) |->
        [bit_length |-> BIT_RANGE, aggregation_factor |-> 2 ^ (i - 1),
         h_base |-> PEDERSEN_H_POINT, g_base |-> PEDERSEN_G_POINT]]

\* RangeWitness::init
RangeWitness_init(openings) ==
    IF Len(openings) = 0 \/ ~is_power_of_two(Len(openings))
    THEN Err("InvalidLength")
    ELSE [tag |-> "Ok", openings |-> openings]

\* RangeStatement::init
RangeStatement_init(generators, commitments, minimum_value_promises) ==
    IF \/ ~is_power_of_two(Len(commitments))
       \/ Len(minimum_value_promises) # Len(commitments)
       \/ generators.aggregation_factor < Len(commitments)
    THEN Err("InvalidLength")
    ELSE [tag |-> "Ok", generators |-> generators, commitments |-> commitments]

\* what a proof is bound to: the transcript label and the statement
Transcript(transcript_label, statement) ==
    [label |-> transcript_label,
     bit_length |-> statement.generators.bit_length,
     aggregation_factor |-> statement.generators.aggregation_factor,
     commitments |-> statement.commitments]

\* RangeProof::prove: a proof of the statement, when the witness opens its
\* commitments to values of the bit length
TariRangeProof_prove(transcript_label, statement, witness) ==
    LET gens == statement.generators
        opens(i) ==
            statement.commitments[i] =
                PAdd(PMul(witness.openings[i].blinding, gens.g_base),
                     PMul(Scalar_from(witness.openings[i].value), gens.h_base))
    IN  IF \/ Len(statement.commitments) # Len(witness.openings)
           \/ \E i \in 1..Len(witness.openings) :
                 ~opens(i) \/ witness.openings[i].value >= 2 ^ gens.bit_length
        THEN Err("InvalidArgument")
        ELSE [tag |-> "Ok", proof |-> Transcript(transcript_label, statement)]

\* RangeProof::verify_batch with VerifyAction::VerifyOnly
TariRangeProof_verify_batch(transcript_label, statements, proofs) ==
    IF Len(statements) = 0 \/ Len(statements) # Len(proofs) THEN Err("InvalidArgument")
    ELSE IF \A i \in 1..Len(statements) :
               proofs[i] = Transcript(transcript_label, statements[i])
         THEN [tag |-> "Ok"]
         ELSE Err("VerificationFailed")

\* `count` copies of x
Repeat(x, count) == [i \in 1..count |-> x]

\* the zip loop and the padding of the inner fn of BulletPlusRangeProof::prove
prover_padding(values, blindings) ==
    LET len == IF Len(values) < Len(blindings) THEN Len(values) ELSE Len(blindings)
        commitment_openings == [i \in 1..len |-> [value |-> values[i], blinding |-> blindings[i]]]
        commitments == [i \in 1..len |-> commit(values[i], blindings[i])]
        power == ceil_log2(Len(commitments))
        n == 2 ^ power
        pad_len == n - Len(commitments)
    IN  [commitments |-> commitments, power |-> power, n |-> n, pad_len |-> pad_len,
         padded_openings |-> Repeat(ZERO_COMMITMENT_OPENING, pad_len) \o commitment_openings,
         padded_commitments |-> Repeat(ZERO_COMMITMENT, pad_len) \o commitments]

\* the inner fn of BulletPlusRangeProof::prove
bulletplus_prove_inner(values, blindings) ==
    LET padded == prover_padding(values, blindings)
        witness == RangeWitness_init(padded.padded_openings)
        statement == RangeStatement_init(RANGE_PARAMETERS[padded.power + 1],
                                         padded.padded_commitments, Repeat("None", padded.n))
    IN  IF witness.tag = "Err" THEN witness
        ELSE IF statement.tag = "Err" THEN statement
        ELSE LET proof == TariRangeProof_prove(TRANSCRIPT_LABEL, statement, witness)
             IN  IF proof.tag = "Err" THEN proof
                 ELSE [tag |-> "Ok", commitments |-> padded.commitments, proof |-> proof.proof]

\* prove with a limit that the largest aggregation already exceeds
bulletplus_prove_strict(values, blindings) ==
    IF Len(values) # Len(blindings) THEN Err("Malformed")
    ELSE IF Len(values) >= MAX_AGGREGATION_SIZE THEN Err("TooLargeAggregationSize")
    ELSE IF \E i \in 1..Len(values) : values[i] > MAX_VALUE THEN Err("OutOfRange")
    ELSE LET r == bulletplus_prove_inner(values, blindings)
         IN  IF r.tag = "Ok" THEN r ELSE Err("Unspecified")

\* BulletPlusRangeProof::prove
bulletplus_prove(values, blindings) ==
    IF Len(values) # Len(blindings) THEN Err("Malformed")
    ELSE IF Len(values) > MAX_AGGREGATION_SIZE THEN Err("TooLargeAggregationSize")
    ELSE IF \E i \in 1..Len(values) : values[i] > MAX_VALUE THEN Err("OutOfRange")
    ELSE LET r == bulletplus_prove_inner(values, blindings)
         IN  IF r.tag = "Ok" THEN r ELSE Err("Unspecified")

\* slice::chunks_exact: the chunks of full size only
chunks_exact(v, size) ==
    [g \in 1..(Len(v) \div size) |-> SubSeq(v, (g - 1) * size + 1, g * size)]

\* slice::chunks
chunks(v, size) ==
    [g \in 1..((Len(v) + size - 1) \div size) |->
        SubSeq(v, (g - 1) * size + 1, IF g * size < Len(v) THEN g * size ELSE Len(v))]

\* the padding put after the commitments
pad_commitments_after(coms, pad_len) == coms \o Repeat(ZERO_COMMITMENT, pad_len)
\* [vec![*ZERO_COMMITMENT; pad_len], coms.to_owned()].concat()
pad_commitments(coms, pad_len) == Repeat(ZERO_COMMITMENT, pad_len) \o coms

\* the padding batch_verify gives one list of commitments
verifier_padding(coms) ==
    LET power == ceil_log2(Len(coms))
        n == 2 ^ power
        pad_len == n - Len(coms)
    IN  [power |-> power, n |-> n, pad_len |-> pad_len,
         padded_commitments |-> pad_commitments(coms, pad_len)]

\* the statement batch_verify builds for one list of commitments
verifier_statement(coms) ==
    LET padded == verifier_padding(coms)
    IN  RangeStatement_init(RANGE_PARAMETERS[padded.power + 1], padded.padded_commitments,
                            Repeat("None", padded.n))

\* the loop over the zipped chunks in the inner fn of batch_verify:
\* st = [g], the groups before g verified
RECURSIVE bulletplus_verify_groups(_, _, _)
bulletplus_verify_groups(commitment_groups, proof_groups, st) ==
    IF st.g > Len(commitment_groups) \/ st.g > Len(proof_groups) THEN [tag |-> "Ok"]
    ELSE
      LET commitment_group == commitment_groups[st.g]
          built == [i \in 1..Len(commitment_group) |-> verifier_statement(commitment_group[i])]
      IN  IF \E i \in 1..Len(built) : built[i].tag = "Err"
          THEN built[CHOOSE i \in 1..Len(built) :
                       built[i].tag = "Err" /\ \A k \in 1..(i - 1) : built[k].tag = "Ok"]
          ELSE LET r == TariRangeProof_verify_batch(TRANSCRIPT_LABEL, built, proof_groups[st.g])
               IN  IF r.tag = "Err" THEN r
                   ELSE bulletplus_verify_groups(commitment_groups, proof_groups,
                                                 [g |-> st.g + 1])

\* BulletPlusRangeProof::batch_verify
bulletplus_batch_verify(commitments, proofs) ==
    IF Len(commitments) # Len(proofs) THEN Err("Malformed")
    ELSE IF \E i \in 1..Len(commitments) : Len(commitments[i]) > MAX_AGGREGATION_SIZE
    THEN Err("TooLargeAggregationSize")
    ELSE LET r == bulletplus_verify_groups(chunks(commitments, MAX_BATCH_GROUP_SIZE),
                                           chunks(proofs, MAX_BATCH_GROUP_SIZE), [g |-> 1])
         IN  IF r.tag = "Ok" THEN r
             ELSE IF r.err = "VerificationFailed" THEN Err("Invalid")
             ELSE Err("Unspecified")

\* BulletPlusRangeProof::verify
bulletplus_verify(commitments, proof) ==
    bulletplus_batch_verify(<<commitments>>, <<proof>>)

(***************************************************************************)
(* tobytes.rs and the impls of ToBytes in curve.rs, types.rs, clsag.rs and *)
(* mlsag.rs. The 32 bytes of a scalar are one word of the model, the 32     *)
(* bytes of a compressed point are two                                     *)
(***************************************************************************)
SCALAR_LENGTH == 1
POINT_LENGTH == 2

\* Scalar::from_canonical_bytes
from_canonical_bytes(bytes) ==
    IF bytes[1] < BASEPOINT_ORDER THEN [tag |-> "Some", value |-> bytes[1]]
    ELSE [tag |-> "None"]

\* CompressedRistretto::decompress: the point that compresses to the bytes,
\* if the bytes are the encoding of one
decompress(bytes) ==
    IF bytes[1] >= BASEPOINT_ORDER \/ bytes[2] >= BASEPOINT_ORDER THEN [tag |-> "None"]
    ELSE LET y == SSub(bytes[2], bytes[1])
         IN  [tag |-> "Some", value |-> << SSub(bytes[1], SAdd(y, y)), y >>]

\* CompressedRistretto::from_slice: copy_from_slice into 32 bytes, which
\* panics for a slice of another length
CompressedRistretto_from_slice(bytes) ==
    IF Len(bytes) # POINT_LENGTH THEN [tag |-> "panic"]
    ELSE [tag |-> "Ok", bytes |-> bytes]

\* to_bytes of a scalar without the reduction
Scalar_to_bytes_raw(scalar) == [tag |-> "Ok", bytes |-> Scalar_bytes(scalar)]
\* impl ToBytes for Scalar
Scalar_to_bytes(scalar) == [tag |-> "Ok", bytes |-> Scalar_bytes(Reduce(scalar))]

Scalar_from_bytes(bytes) ==
    IF Len(bytes) # SCALAR_LENGTH THEN Err("DecodingError")
    ELSE LET decoded == from_canonical_bytes(bytes)
         IN  IF decoded.tag = "Some" THEN [tag |-> "Ok", value |-> decoded.value]
             ELSE Err("DecodingError")

\* impl ToBytes for RistrettoPoint
RistrettoPoint_to_bytes(point) == [tag |-> "Ok", bytes |-> compress(point)]

RistrettoPoint_from_bytes(bytes) ==
    IF Len(bytes) # POINT_LENGTH THEN Err("DecodingError")
    ELSE LET slice == CompressedRistretto_from_slice(bytes)
         IN  IF slice.tag = "panic" THEN slice
             ELSE LET decoded == decompress(slice.bytes)
                  IN  IF decoded.tag = "Some" THEN [tag |-> "Ok", value |-> decoded.value]
                      ELSE Err("DecodingError")

\* impl ToBytes for Commitment
Commitment_to_bytes(commitment) == [tag |-> "Ok", bytes |-> compress(commitment)]

Commitment_from_bytes(bytes) ==
    LET slice == CompressedRistretto_from_slice(bytes)
    IN  IF slice.tag = "panic" THEN slice
        ELSE LET decoded == decompress(slice.bytes)
             IN  IF decoded.tag = "Some" THEN [tag |-> "Ok", value |-> decoded.value]
                 ELSE Err("DecodingError")

\* bincode of a Vec<Scalar>: the length, then the stored bytes of each scalar
bincode_scalars(scalars) == <<Len(scalars)>> \o Concat([i \in 1..Len(scalars) |-> Scalar_bytes(scalars[i])])

\* Deserialize for Scalar at word `at` of the input: 32 bytes, canonical
bincode_scalar_at(bytes, at) ==
    IF at + SCALAR_LENGTH - 1 > Len(bytes) THEN [tag |-> "None"]
    ELSE from_canonical_bytes(SubSeq(bytes, at, at + SCALAR_LENGTH - 1))

\* Deserialize for RistrettoPoint at word `at` of the input: 32 bytes that
\* decompress
bincode_point_at(bytes, at) ==
    IF at + POINT_LENGTH - 1 > Len(bytes) THEN [tag |-> "None"]
    ELSE decompress(SubSeq(bytes, at, at + POINT_LENGTH - 1))

\* Deserialize for `count` scalars in a row from word `at` on
bincode_scalars_at(bytes, at, count) ==
    IF at + count * SCALAR_LENGTH - 1 > Len(bytes) THEN [tag |-> "None"]
    ELSE IF \E i \in 0..(count - 1) : bincode_scalar_at(bytes, at + i * SCALAR_LENGTH).tag = "None"
    THEN [tag |-> "None"]
    ELSE [tag |-> "Some",
          value |-> [i \in 1..count |-> bincode_scalar_at(bytes, at + (i - 1) * SCALAR_LENGTH).value]]

\* Deserialize for Vec<Scalar> at word `at`: the length, then as many scalars;
\* `next` is the word after the vector
bincode_vec_at(bytes, at) ==
    IF at > Len(bytes) THEN [tag |-> "None"]
    ELSE LET read == bincode_scalars_at(bytes, at + 1, bytes[at])
         IN  IF read.tag = "None" THEN read
             ELSE [tag |-> "Some", value |-> read.value, next |-> at + 1 + bytes[at] * SCALAR_LENGTH]

\* ToBytes::to_bytes for CLSAGSignature: bincode::serialize of the fields
CLSAGSignature_to_bytes(signature) ==
    [tag |-> "Ok",
     bytes |-> compress(signature.key_image) \o Scalar_bytes(signature.c_0)
               \o bincode_scalars(signature.s) \o compress(signature.auxiliary)]

\* ToBytes::from_bytes for CLSAGSignature: bincode::deserialize of key_image,
\* c_0, s and auxiliary, in this order; bytes after them are left unread
CLSAGSignature_from_bytes(bytes) ==
    LET key_image == bincode_point_at(bytes, 1)
        c_0 == bincode_scalar_at(bytes, 1 + POINT_LENGTH)
        s == bincode_vec_at(bytes, 1 + POINT_LENGTH + SCALAR_LENGTH)
    IN  IF key_image.tag = "None" \/ c_0.tag = "None" \/ s.tag = "None" THEN Err("DecodingError")
        ELSE LET auxiliary == bincode_point_at(bytes, s.next)
             IN  IF auxiliary.tag = "None" THEN Err("DecodingError")
                 ELSE [tag |-> "Ok",
                       value |-> [key_image |-> key_image.value, c_0 |-> c_0.value,
                                  s |-> s.value, auxiliary |-> auxiliary.value]]

\* ToBytes::to_bytes for MLSAGSignature
MLSAGSignature_to_bytes(signature) ==
    [tag |-> "Ok",
     bytes |-> compress(signature.key_image) \o Scalar_bytes(signature.e_0)
               \o bincode_scalars(signature.s[1]) \o bincode_scalars(signature.s[2])]

\* ToBytes::from_bytes for MLSAGSignature: key_image, e_0 and the two layers
\* of s
MLSAGSignature_from_bytes(bytes) ==
    LET key_image == bincode_point_at(bytes, 1)
        e_0 == bincode_scalar_at(bytes, 1 + POINT_LENGTH)
        s_l == bincode_vec_at(bytes, 1 + POINT_LENGTH + SCALAR_LENGTH)
    IN  IF key_image.tag = "None" \/ e_0.tag = "None" \/ s_l.tag = "None" THEN Err("DecodingError")
        ELSE LET s_c == bincode_vec_at(bytes, s_l.next)
             IN  IF s_c.tag = "None" THEN Err("DecodingError")
                 ELSE [tag |-> "Ok",
                       value |-> [key_image |-> key_image.value, e_0 |-> e_0.value,
                                  s |-> <<s_l.value, s_c.value>>]]

\* ToBytes::to_bytes for BorromeanRangeProof: arrays carry no length
BorromeanRangeProof_to_bytes(proof) ==
    [tag |-> "Ok",
     bytes |-> Concat([i \in 1..NUMBER_OF_PROOF_DIGITS |-> compress(proof.c_i[i])])
               \o Scalar_bytes(proof.sig.e_0)
               \o Concat([k \in 1..(4 * NUMBER_OF_PROOF_DIGITS) |->
                            Scalar_bytes(proof.sig.s[((k - 1) \div 4) + 1][((k - 1) % 4) + 1])])]

\* ToBytes::from_bytes for BorromeanRangeProof: the digit commitments, e_0
\* and the four scalars of every digit
BorromeanRangeProof_from_bytes(bytes) ==
    LET c_i == [i \in 1..NUMBER_OF_PROOF_DIGITS |-> bincode_point_at(bytes, 1 + (i - 1) * POINT_LENGTH)]
        after == 1 + NUMBER_OF_PROOF_DIGITS * POINT_LENGTH
        e_0 == bincode_scalar_at(bytes, after)
        s == bincode_scalars_at(bytes, after + SCALAR_LENGTH, 4 * NUMBER_OF_PROOF_DIGITS)
    IN  IF (\E i \in 1..NUMBER_OF_PROOF_DIGITS : c_i[i].tag = "None") \/ e_0.tag = "None" \/ s.tag = "None"
        THEN Err("DecodingError")
        ELSE [tag |-> "Ok",
              value |-> [c_i |-> [i \in 1..NUMBER_OF_PROOF_DIGITS |-> c_i[i].value],
                         sig |-> [e_0 |-> e_0.value,
                                  s |-> [i \in 1..NUMBER_OF_PROOF_DIGITS |->
                                           [j \in 1..4 |-> s.value[4 * (i - 1) + j]]]]]]

(***************************************************************************)
(* What sign_internal leaves behind in the memory of its secrets           *)
(***************************************************************************)
\* Zeroize for Scalar
Scalar_zeroize(scalar) == Scalar_zero

\* Zeroize for Vec<u8>: every byte of the buffer is overwritten
Vec_zeroize(bytes) == [i \in 1..Len(bytes) |-> 0]

\* derive(Zeroize) for EnoteKeys
EnoteKeys_zeroize(keys) == [owner |-> Scalar_zeroize(keys.owner), value |-> 0, blinding |-> Scalar_zeroize(keys.blinding)]

\* impl Drop for EnoteKeys
EnoteKeys_drop(keys) == EnoteKeys_zeroize(keys)

\* CLSAGSignature::sign_internal, followed for its secrets: commitment_key and
\* seed as they are when the function returns, and the EnoteKeys argument
\* after it was dropped at the return
clsag_sign_internal_memory(ring, ring_l, unshifted_ring_c, encoded_ring_l, encoded_ring_c, enote_keys, pseudo_out_blinding, msg) ==
    LET commitment_key == SSub(enote_keys.blinding, pseudo_out_blinding)
        pseudo_out == commit(enote_keys.value, pseudo_out_blinding)
        j == position(ring, to_enote(enote_keys))
    IN  IF j = -1
        THEN [tag |-> "Err", commitment_key |-> commitment_key, seed |-> [tag |-> "unbuilt"],
              enote_keys |-> EnoteKeys_drop(enote_keys)]
        ELSE
          LET key_image_points == get_key_image_points(encoded_ring_l)
              key_image == PMul(enote_keys.owner, key_image_points[j + 1])
              auxiliary_point == PMul(commitment_key, key_image_points[j + 1])
              m == clsag_create_message(encoded_ring_l, encoded_ring_c, pseudo_out,
                                        key_image, auxiliary_point, msg)
              seed == Scalar_bytes(enote_keys.owner) \o Scalar_bytes(pseudo_out_blinding) \o m
          IN  [tag |-> "Ok", commitment_key |-> Scalar_zeroize(commitment_key),
               seed |-> [tag |-> "built", bytes |-> Vec_zeroize(seed)],
               enote_keys |-> EnoteKeys_drop(enote_keys)]

\* MLSAGSignature::sign_internal, followed for its secrets
mlsag_sign_internal_memory(ring, ring_l, unshifted_ring_c, encoded_ring_l, encoded_ring_c, enote_keys, pseudo_out_blinding, msg) ==
    LET commitment_key == SSub(enote_keys.blinding, pseudo_out_blinding)
        pseudo_out == commit(enote_keys.value, pseudo_out_blinding)
        j == position(ring, to_enote(enote_keys))
    IN  IF j = -1
        THEN [tag |-> "Err", commitment_key |-> commitment_key, seed |-> [tag |-> "unbuilt"],
              enote_keys |-> EnoteKeys_drop(enote_keys)]
        ELSE
          LET key_image_points == get_key_image_points(encoded_ring_l)
              key_image == PMul(enote_keys.owner, key_image_points[j + 1])
              m == mlsag_create_message(encoded_ring_l, encoded_ring_c, pseudo_out, key_image, msg)
              seed == Scalar_bytes(enote_keys.owner) \o Scalar_bytes(pseudo_out_blinding) \o m
          IN  [tag |-> "Ok", commitment_key |-> Scalar_zeroize(commitment_key),
               seed |-> [tag |-> "built", bytes |-> Vec_zeroize(seed)],
               enote_keys |-> EnoteKeys_drop(enote_keys)]

(***************************************************************************)
(* Which function calls which: the group operations behind every signing,  *)
(* proving and verifying function                                          *)
(***************************************************************************)
\* &s * G and &s * &*PEDERSEN_G: a basepoint table; s * p: a point; both
\* constant-time, like RistrettoPoint::multiscalar_mul
ConstantTimeOps == {"basepoint_table_mul", "scalar_mul", "multiscalar_mul"}
\* RistrettoPoint::vartime_multiscalar_mul and
\* VartimeRistrettoPrecomputation::vartime_mixed_multiscalar_mul
VartimeOps == {"vartime_multiscalar_mul", "vartime_mixed_multiscalar_mul"}

\* a chameleon hash made with the verifier's multiplication
chameleon_h_calls_vartime == {"encode_point", "vartime_mixed_multiscalar_mul", "h_scalar"}
\* fn chameleon_h
chameleon_h_calls == {"encode_point", "basepoint_table_mul", "scalar_mul", "h_scalar"}
\* fn multi_chameleon_h
multi_chameleon_h_calls == {"basepoint_table_mul", "scalar_mul", "batch_encode_points", "h_scalar"}
\* CLSAGSignature::sign_internal
clsag_sign_internal_calls ==
    {"commit", "shift_commitments", "to_enote", "get_key_image_points", "scalar_mul",
     "clsag_create_message", "h_scalar", "domain_h_scalar", "multiscalar_mul",
     "basepoint_table_mul", "batch_encode_points", "zeroize"}
\* MLSAGSignature::sign_internal
mlsag_sign_internal_calls ==
    {"commit", "shift_commitments", "to_enote", "get_key_image_points", "scalar_mul",
     "mlsag_create_message", "h_scalar", "multiscalar_mul", "basepoint_table_mul",
     "batch_encode_points", "zeroize"}
\* CLSAGSignature::verify_internal
clsag_verify_internal_calls ==
    {"shift_commitments", "get_key_image_points", "clsag_create_message", "domain_h_scalar",
     "vartime_multiscalar_mul", "vartime_mixed_multiscalar_mul", "batch_encode_points"}
\* MLSAGSignature::verify_internal
mlsag_verify_internal_calls ==
    {"shift_commitments", "get_key_image_points", "mlsag_create_message", "h_scalar",
     "vartime_multiscalar_mul", "vartime_mixed_multiscalar_mul", "batch_encode_points"}

\* the functions a function calls
Calls(f) ==
    CASE f = "clsag_sign" -> {"separate_ring", "encode_rings", "ring_is_sorted", "clsag_sign_internal"}
      [] f = "clsag_sign_unsorted" -> {"separate_ring", "encode_rings", "clsag_sign_internal"}
      [] f = "clsag_sign_internal" -> clsag_sign_internal_calls
      [] f = "clsag_verify" -> {"separate_ring", "encode_rings", "ring_is_sorted", "clsag_verify_internal"}
      [] f = "clsag_verify_unsorted" -> {"separate_ring", "encode_rings", "clsag_verify_internal"}
      [] f = "clsag_verify_internal" -> clsag_verify_internal_calls
      [] f = "clsag_create_message" -> {"batch_encode_points", "h_bytes"}
      [] f = "mlsag_sign" -> {"separate_ring", "encode_rings", "ring_is_sorted", "mlsag_sign_internal"}
      [] f = "mlsag_sign_unsorted" -> {"separate_ring", "encode_rings", "mlsag_sign_internal"}
      [] f = "mlsag_sign_and_sort" -> {"separate_ring", "encode_rings", "ring_as_sorted", "mlsag_sign_internal"}
      [] f = "mlsag_sign_internal" -> mlsag_sign_internal_calls
      [] f = "mlsag_verify" -> {"separate_ring", "encode_rings", "ring_is_sorted", "mlsag_verify_internal"}
      [] f = "mlsag_verify_unsorted" -> {"separate_ring", "encode_rings", "mlsag_verify_internal"}
      [] f = "mlsag_verify_internal" -> mlsag_verify_internal_calls
      [] f = "mlsag_create_message" -> {"batch_encode_points", "h_bytes"}
      [] f = "borromean_prove" -> {"quaternary", "random_scalar", "basepoint_table_mul", "from_ristretto", "encode_point", "borromean_sign"}
      [] f = "borromean_sign" -> {"create_m", "random_scalar", "chameleon_h", "multi_chameleon_h"}
      [] f = "chameleon_h" -> chameleon_h_calls
      [] f = "multi_chameleon_h" -> multi_chameleon_h_calls
      [] f = "borromean_range_verify" -> {"to_ristretto", "encode_point", "borromean_verify"}
      [] f = "borromean_verify" -> {"create_m", "vartime_chameleon_h", "vartime_multi_chameleon_h"}
      [] f = "vartime_chameleon_h" -> {"encode_point", "vartime_mixed_multiscalar_mul", "h_scalar"}
      [] f = "vartime_multi_chameleon_h" -> {"vartime_mixed_multiscalar_mul", "batch_encode_points", "h_scalar"}
      [] f = "create_m" -> {"batch_encode_points", "h_bytes"}
      [] f = "encode_rings" -> {"batch_encode_points"}
      [] f = "get_key_image_points" -> {"h_key_image_point"}
      [] f = "h_key_image_point" -> {"domain_h_point"}
      [] f = "commit" -> {"basepoint_table_mul"}
      [] f = "to_enote" -> {"basepoint_table_mul", "commit"}
      [] OTHER -> {}

\* the public functions that sign or prove, with fn borromean_sign
SigningEntries ==
    {"clsag_sign", "clsag_sign_unsorted", "mlsag_sign", "mlsag_sign_unsorted",
     "mlsag_sign_and_sort", "borromean_prove", "borromean_sign"}
\* the public functions that verify
VerificationEntries ==
    {"clsag_verify", "clsag_verify_unsorted", "mlsag_verify", "mlsag_verify_unsorted",
     "borromean_range_verify"}

(***************************************************************************)
(* The callers of the signature API: one signing call on chosen inputs,    *)
(* then one verification call on the returned signature, either as it was  *)
(* returned or with one of the arguments altered                           *)
(***************************************************************************)
\* the longest ring, and the largest pseudo-output blinding
MaxRing == 3
MaxBlind == 1

\* the keys of the enotes that rings are made of
RingKeys ==
    { EnoteKeys_new(Scalar_from(1), 1, Scalar_from(1)),
      EnoteKeys_new(Scalar_from(0), 0, Scalar_from(0)),
      EnoteKeys_new(Scalar_from(0), 1, Scalar_from(1)) }
\* the keys a signer may hold: the last one has the owner key of a ring enote
\* and another value
SignerKeys == RingKeys \cup { EnoteKeys_new(Scalar_from(1), 2, Scalar_from(1)) }
RingEnotes == { to_enote(k) : k \in RingKeys }
Rings == UNION { [1..n -> RingEnotes] : n \in 0..MaxRing }
Messages == { <<97, 98, 99>>, <<49, 50>> }

\* the most commitments on a side of a balance, the largest committed value
\* and the largest extra output
MaxCommitments == 2
MaxBalanceValue == 1
MaxExtra == 1
\* the openings of the commitments of a balance
BalanceOpenings ==
    { [value |-> v, blinding |-> b] :
        v \in 0..MaxBalanceValue, b \in {Scalar_one, SNeg(Scalar_one)} }

\* the number of random tapes
MaxTape == 2
\* the blindings a range proof is made for
RangeBlindings == {Scalar_zero, Scalar_one, SNeg(Scalar_one)}
\* the openings an aggregated range proof is made for
AggregatedOpenings ==
    { [value |-> 0, blinding |-> Scalar_zero],
      [value |-> 1, blinding |-> Scalar_one],
      [value |-> MAX_VALUE, blinding |-> Scalar_from(2)] }

\* the scalars that are serialized: small ones, the largest reduced one, a
\* hash, and the unreduced constant the signing code starts its chains from
WireScalars == { Scalar_zero, Scalar_one, BASEPOINT_ORDER - 1, FILLER_SCALAR, h_scalar(<<119>>) }
\* the points that are serialized
WirePoints == { ZERO_POINT, G_POINT, PEDERSEN_H_POINT, get_key_image(Scalar_one) }
\* the signatures that are serialized: those of sign over the rings in
\* canonical order, each with the ring, pseudo-output and message it is then
\* verified against, the message signed or another one
WireRings == { rg \in Rings : Ring_is_sorted(rg) }
WireCLSAGSignatures ==
    LET calls == { [ring |-> rg, res |-> clsag_sign(rg, k, Scalar_one, <<97, 98, 99>>)] :
                   rg \in WireRings, k \in RingKeys }
        signed == { d \in calls : d.res.tag = "Ok" }
    IN  { [kind |-> "CLSAG", clsag |-> c.res.signature, ring |-> c.ring,
           pseudo_out |-> c.res.pseudo_out, msg |-> m] : c \in signed, m \in Messages }
WireMLSAGSignatures ==
    LET calls == { [ring |-> rg, res |-> mlsag_sign(rg, k, Scalar_one, <<97, 98, 99>>)] :
                   rg \in WireRings, k \in RingKeys }
        signed == { d \in calls : d.res.tag = "Ok" }
    IN  { [kind |-> "MLSAG", mlsag |-> c.res.signature, ring |-> c.ring,
           pseudo_out |-> c.res.pseudo_out, msg |-> m] : c \in signed, m \in Messages }
\* the Borromean proofs that are serialized: each with the commitment it is
\* then verified against, its own or another one
WireProofs ==
    LET calls == { borromean_prove(v, b, 1) : v \in {0, MAX_VALUE}, b \in RangeBlindings }
    IN  { [kind |-> "Borromean", proof |-> c.proof, against |-> com] :
          c \in calls, com \in { d.commitment : d \in calls } }
\* the slices handed to from_bytes: what to_bytes gave, as it is, cut short,
\* with a trailing byte, with a first word that is no canonical encoding, and
\* the empty slice
WireInputs(bytes) ==
    { bytes, bytes \o <<0>>, << >> }
    \cup IF bytes = << >> THEN {}
         ELSE { SubSeq(bytes, 1, Len(bytes) - 1), [bytes EXCEPT ![1] = BASEPOINT_ORDER] }

\* the signatures whose shape is tried: those of sign for every sorted ring,
\* each with its s as returned, one scalar shorter and one scalar longer, and
\* for MLSAG with each of the two layers altered alone too
ShapeSignatures(scheme) ==
    LET calls == { IF scheme = "CLSAG" THEN clsag_sign(rg, k, Scalar_one, <<49, 50>>)
                   ELSE mlsag_sign(rg, k, Scalar_one, <<49, 50>>) :
                   rg \in Rings, k \in RingKeys }
        signed == { c \in calls : c.tag = "Ok" }
        shapes(v) == { v, SubSeq(v, 1, Len(v) - 1), Append(v, Scalar_one) }
    IN  IF scheme = "CLSAG"
        THEN UNION { { [signature |-> [c.signature EXCEPT !.s = v], pseudo_out |-> c.pseudo_out] :
                       v \in shapes(c.signature.s) } : c \in signed }
        ELSE UNION { { [signature |-> [c.signature EXCEPT !.s = <<v, w>>], pseudo_out |-> c.pseudo_out] :
                       v \in shapes(c.signature.s[1]), w \in shapes(c.signature.s[2]) } : c \in signed }

\* the commitments handed to BorromeanRangeProof::verify with a proof: the
\* one prove returned, and those of another value or another blinding
DigitCommitments(proved) ==
    { proved.commitment, PAdd(proved.commitment, PEDERSEN_H_POINT), ZERO_POINT }
\* the proofs handed to it: the one prove returned, as it is, with its digit
\* commitments in another order, and with one digit commitment replaced
DigitProofs(proved) ==
    LET c == proved.proof.c_i
    IN  { proved.proof,
          [proved.proof EXCEPT !.c_i = [i \in 1..Len(c) |-> c[Len(c) + 1 - i]]],
          [proved.proof EXCEPT !.c_i[1] = PAdd(c[1], PEDERSEN_H_POINT)] }

\* the most pairs handed to batch_verify
MaxBatch == 5
\* what the proofs of a batch are made for: one value, the largest
\* aggregation, and one value more than that
BatchInputs ==
    { [values |-> Repeat(1, n), blindings |-> Repeat(Scalar_one, n)] :
        n \in {1, MAX_AGGREGATION_SIZE, MAX_AGGREGATION_SIZE + 1} }
\* commitments that a proof was not made for
Tampered(coms) == [coms EXCEPT ![1] = PAdd(@, PEDERSEN_H_POINT)]

(***************************************************************************)
(* address/ecdh.rs                                                         *)
(***************************************************************************)
\* hashes::domains, as the bytes of the strings
ECDH_VIEW_TAG == <<101, 99, 100, 104, 95, 116, 97, 103>>
ECDH_ENCRYPTION_KEY == <<101, 99, 100, 104, 95, 101, 110, 99>>
SUBADDRESS_SUB_PRIVATE_SPEND == <<115, 117, 98, 97, 100, 100, 114, 95, 115, 115>>

\* a ^ b of two u64 (of BIT_RANGE bits)
RECURSIVE XorBits(_, _, _)
XorBits(a, b, bits) ==
    IF bits = 0 THEN 0
    ELSE ((a + b) % 2) + 2 * XorBits(a \div 2, b \div 2, bits - 1)
\* a.wrapping_add(b) in the place of a ^ b
u64_wrapping_add(a, b) == (a + b) % (2 ^ BIT_RANGE)
u64_xor(a, b) == XorBits(a, b, BIT_RANGE)
\* u64::from_be_bytes(bytes[0..8]): the part of the first word that fits a u64
u64_from_be_bytes(bytes) == bytes[1] % (2 ^ BIT_RANGE)
\* u64::to_le_bytes and u32::to_le_bytes
u64_to_le_bytes(n) == <<n>>
u32_to_le_bytes(n) == <<n>>

\* SharedSecret::from_point: the 32 bytes (two words) of the compressed point
SharedSecret_from_point(point) == compress(point)
\* SharedSecret::get
SharedSecret_get(my_private, other_public) ==
    SharedSecret_from_point(PMul(my_private, other_public))
\* SharedSecret::get_view_tag: the first byte of the hash
SharedSecret_get_view_tag(secret) == domain_h_bytes(secret, ECDH_VIEW_TAG)[1] % 256
\* SharedSecret::as_scalar: Scalar::from_bytes_mod_order of the 32 bytes, the
\* little-endian integer of the two words
SharedSecret_as_scalar(secret) ==
    SAdd(secret[1], SMul(WORD % BASEPOINT_ORDER, secret[2]))
\* SharedSecret::encrypt_amount
SharedSecret_encrypt_amount(secret, amount) ==
    u64_xor(amount, u64_from_be_bytes(domain_h_bytes(secret, ECDH_ENCRYPTION_KEY)))
\* SharedSecret::decrypt_amount
SharedSecret_decrypt_amount(secret, encrypted_amount) ==
    SharedSecret_encrypt_amount(secret, encrypted_amount)

\* ECDHPrivateKey::to_public
ECDHPrivateKey_to_public(sk) == G_mul(sk)
\* ECDHPrivateKey::shared_secret
ECDHPrivateKey_shared_secret(sk, other_public) == SharedSecret_get(sk, other_public)
\* ECDHPrivateKey::derive_key
ECDHPrivateKey_derive_key(sk, secret) == SAdd(sk, SharedSecret_as_scalar(secret))
\* ECDHPublicKey::shared_secret
ECDHPublicKey_shared_secret(pk, other_private) == SharedSecret_get(other_private, pk)
\* ECDHPublicKey::derive_key
ECDHPublicKey_derive_key(pk, secret) == PAdd(pk, G_mul(SharedSecret_as_scalar(secret)))

(***************************************************************************)
(* address/subaddress.rs                                                   *)
(***************************************************************************)
\* the largest u32 (scaled)
U32_MAX == 3

None == [tag |-> "None"]
\* HashMap::insert and HashMap::get
HashMap_insert(map, k, v) == [x \in (DOMAIN map) \cup {k} |-> IF x = k THEN v ELSE map[x]]
HashMap_get(map, k) == IF k \in DOMAIN map THEN [tag |-> "Some", value |-> map[k]] ELSE None

\* GenericLookupTable::default
LookupTable_default == [tag |-> "Some", coords |-> << >>, secrets |-> << >>]
\* GenericLookupTable::insert
LookupTable_insert(table, point, coords, key) ==
    [tag |-> "Some",
     coords |-> HashMap_insert(table.coords, point, coords),
     secrets |-> HashMap_insert(table.secrets, coords, key)]

\* MasterPrivateKeys::from_keys
MasterPrivateKeys_from_keys(private_view_key, private_spend_key) ==
    [view |-> private_view_key, spend |-> private_spend_key, table |-> None]

\* MasterPrivateKeys::to_view_only
MasterPrivateKeys_to_view_only(keys) ==
    [view |-> keys.view, spend |-> G_mul(keys.spend), table |-> None]

\* the message hashed by get_subkey_unchecked: the first coordinate is
\* concatenated twice
subkey_msg(view, coordinates) ==
    Concat(<<Scalar_bytes(view), u32_to_le_bytes(coordinates[1]), u32_to_le_bytes(coordinates[1])>>)

\* MasterPrivateKeys::get_subkey_unchecked
MasterPrivateKeys_get_subkey_unchecked(keys, coordinates) ==
    SAdd(keys.spend, domain_h_scalar(subkey_msg(keys.view, coordinates), SUBADDRESS_SUB_PRIVATE_SPEND))

\* MasterPrivateView::get_subkey_unchecked
MasterPrivateView_get_subkey_unchecked(keys, coordinates) ==
    PAdd(keys.spend, G_mul(domain_h_scalar(subkey_msg(keys.view, coordinates), SUBADDRESS_SUB_PRIVATE_SPEND)))

\* MasterPrivateKeys::get_table and MasterPrivateView::get_table
get_table(keys) == IF keys.table.tag = "Some" THEN keys.table ELSE Err("UninitializedTable")

\* a get_mut_table_else_new that replaces a table that is there
get_mut_table_always_new(keys) == [keys EXCEPT !.table = LookupTable_default]

\* get_mut_table_else_new: the keys with the table it leaves in them
get_mut_table_else_new(keys) ==
    IF keys.table.tag = "None" THEN [keys EXCEPT !.table = LookupTable_default] ELSE keys

\* MasterPrivateKeys::get_subaddress_key
MasterPrivateKeys_get_subaddress_key(keys, coordinates) ==
    LET table == get_table(keys)
    IN  IF table.tag = "Err" THEN table
        ELSE IF HashMap_get(table.secrets, coordinates).tag = "None"
        THEN Err("UninitializedCoordinates")
        ELSE [tag |-> "Ok", key |-> MasterPrivateKeys_get_subkey_unchecked(keys, coordinates)]

\* MasterPrivateView::get_subaddress_key
MasterPrivateView_get_subaddress_key(keys, coordinates) ==
    LET table == get_table(keys)
    IN  IF table.tag = "Err" THEN table
        ELSE IF HashMap_get(table.secrets, coordinates).tag = "None"
        THEN Err("UninitializedCoordinates")
        ELSE [tag |-> "Ok", key |-> MasterPrivateView_get_subkey_unchecked(keys, coordinates)]

\* the table after one insert of init or init_coordinates
MasterPrivateKeys_insert_key(keypair, table, coordinates) ==
    LET key == MasterPrivateKeys_get_subkey_unchecked(keypair, coordinates)
    IN  LookupTable_insert(table, compress(G_mul(key)), coordinates, key)

MasterPrivateView_insert_key(keypair, table, coordinates) ==
    LET key == MasterPrivateView_get_subkey_unchecked(keypair, coordinates)
    IN  LookupTable_insert(table, compress(key), coordinates, key)

\* the two loops of init; st = [table, x_coord, y_coord]
RECURSIVE MasterPrivateKeys_init_loop(_, _, _, _)
MasterPrivateKeys_init_loop(keypair, x, y, st) ==
    IF st.x_coord >= x THEN st.table
    ELSE IF st.y_coord >= y
    THEN MasterPrivateKeys_init_loop(keypair, x, y,
            [table |-> st.table, x_coord |-> st.x_coord + 1, y_coord |-> 0])
    ELSE MasterPrivateKeys_init_loop(keypair, x, y,
            [table |-> MasterPrivateKeys_insert_key(keypair, st.table, <<st.x_coord, st.y_coord>>),
             x_coord |-> st.x_coord, y_coord |-> st.y_coord + 1])

RECURSIVE MasterPrivateView_init_loop(_, _, _, _)
MasterPrivateView_init_loop(keypair, x, y, st) ==
    IF st.x_coord >= x THEN st.table
    ELSE IF st.y_coord >= y
    THEN MasterPrivateView_init_loop(keypair, x, y,
            [table |-> st.table, x_coord |-> st.x_coord + 1, y_coord |-> 0])
    ELSE MasterPrivateView_init_loop(keypair, x, y,
            [table |-> MasterPrivateView_insert_key(keypair, st.table, <<st.x_coord, st.y_coord>>),
             x_coord |-> st.x_coord, y_coord |-> st.y_coord + 1])

\* x * y of two u32 overflows
u32_mul_overflows(x, y) == x * y > U32_MAX

\* MasterPrivateKeys::init: the keys it leaves, and whether it returned.
\* `x * y` panics on overflow in a build with overflow checks (the table is
\* created before) and wraps in one without (the capacity reserved has no
\* effect on what the table holds)
MasterPrivateKeys_init(keys, x, y, checks) ==
    LET keypair == MasterPrivateKeys_from_keys(keys.view, keys.spend)
        created == get_mut_table_else_new(keys)
    IN  IF checks /\ u32_mul_overflows(x, y) THEN [tag |-> "Panic", keys |-> created]
        ELSE [tag |-> "Ok",
              keys |-> [created EXCEPT !.table = MasterPrivateKeys_init_loop(keypair, x, y,
                            [table |-> created.table, x_coord |-> 0, y_coord |-> 0])]]

\* MasterPrivateView::init
MasterPrivateView_init(keys, x, y, checks) ==
    LET keypair == [view |-> keys.view, spend |-> keys.spend, table |-> None]
        created == get_mut_table_else_new(keys)
    IN  IF checks /\ u32_mul_overflows(x, y) THEN [tag |-> "Panic", keys |-> created]
        ELSE [tag |-> "Ok",
              keys |-> [created EXCEPT !.table = MasterPrivateView_init_loop(keypair, x, y,
                            [table |-> created.table, x_coord |-> 0, y_coord |-> 0])]]

\* MasterPrivateKeys::init_coordinates: the keys it leaves
MasterPrivateKeys_init_coordinates(keys, coordinates) ==
    LET keypair == MasterPrivateKeys_from_keys(keys.view, keys.spend)
        created == get_mut_table_else_new(keys)
    IN  [created EXCEPT !.table = MasterPrivateKeys_insert_key(keypair, created.table, coordinates)]

\* MasterPrivateView::init_coordinates
MasterPrivateView_init_coordinates(keys, coordinates) ==
    LET keypair == [view |-> keys.view, spend |-> keys.spend, table |-> None]
        created == get_mut_table_else_new(keys)
    IN  [created EXCEPT !.table = MasterPrivateView_insert_key(keypair, created.table, coordinates)]

\* MasterPrivateKeys::get_subaddress
MasterPrivateKeys_get_subaddress(keys, coordinates) ==
    LET key == MasterPrivateKeys_get_subaddress_key(keys, coordinates)
    IN  IF key.tag = "Err" THEN key
        ELSE LET spend == G_mul(key.key)
             IN  [tag |-> "Ok", subaddress |-> [spend |-> spend, view |-> PMul(keys.view, spend)]]

\* MasterPrivateView::get_subaddress
MasterPrivateView_get_subaddress(keys, coordinates) ==
    LET key == MasterPrivateView_get_subaddress_key(keys, coordinates)
    IN  IF key.tag = "Err" THEN key
        ELSE [tag |-> "Ok", subaddress |-> [spend |-> key.key, view |-> PMul(keys.view, key.key)]]

\* MasterPrivateKeys::recover_coordinates and MasterPrivateView::recover_coordinates
recover_coordinates(keys, public_key, secret) ==
    LET table == get_table(keys)
    IN  IF table.tag = "Err" THEN table
        ELSE LET found == HashMap_get(table.coords,
                              compress(PSub(public_key, G_mul(SharedSecret_as_scalar(secret)))))
             IN  IF found.tag = "Some" THEN [tag |-> "Ok", coords |-> found.value]
                 ELSE Err("KeyNotFound")

\* SubaddressPublic::derive_key
SubaddressPublic_derive_key(subaddress, secret) ==
    PAdd(subaddress.spend, G_mul(SharedSecret_as_scalar(secret)))

\* import_coordinates: the coordinates decoded from the chunks of 8 bytes (two
\* words), st = [coordinates, i]
RECURSIVE decode_coordinates(_, _)
decode_coordinates(bytes, st) ==
    IF st.i > Len(bytes) THEN st.coordinates
    ELSE decode_coordinates(bytes,
            [coordinates |-> Append(st.coordinates, <<bytes[st.i], bytes[st.i + 1]>>), i |-> st.i + 2])

RECURSIVE MasterPrivateKeys_import_loop(_, _, _)
MasterPrivateKeys_import_loop(keys, coordinates, i) ==
    IF i > Len(coordinates) THEN keys
    ELSE MasterPrivateKeys_import_loop(
            MasterPrivateKeys_init_coordinates(keys, coordinates[i]), coordinates, i + 1)

RECURSIVE MasterPrivateView_import_loop(_, _, _)
MasterPrivateView_import_loop(keys, coordinates, i) ==
    IF i > Len(coordinates) THEN keys
    ELSE MasterPrivateView_import_loop(
            MasterPrivateView_init_coordinates(keys, coordinates[i]), coordinates, i + 1)

\* MasterPrivateKeys::import_coordinates: what it returned and the keys it leaves
MasterPrivateKeys_import_coordinates(keys, bytes) ==
    IF Len(bytes) % 2 # 0 THEN [tag |-> "Err", err |-> "DecodingError", keys |-> keys]
    ELSE [tag |-> "Ok",
          keys |-> MasterPrivateKeys_import_loop([keys EXCEPT !.table = LookupTable_default],
                        decode_coordinates(bytes, [coordinates |-> << >>, i |-> 1]), 1)]

\* MasterPrivateView::import_coordinates
MasterPrivateView_import_coordinates(keys, bytes) ==
    IF Len(bytes) % 2 # 0 THEN [tag |-> "Err", err |-> "DecodingError", keys |-> keys]
    ELSE [tag |-> "Ok",
          keys |-> MasterPrivateView_import_loop([keys EXCEPT !.table = LookupTable_default],
                        decode_coordinates(bytes, [coordinates |-> << >>, i |-> 1]), 1)]

(***************************************************************************)
(* address/cryptonote.rs                                                   *)
(***************************************************************************)
Some(v) == [tag |-> "Some", value |-> v]

\* CryptoNotePrivate::to_public
CryptoNotePrivate_to_public(keys) == [view |-> G_mul(keys.view), spend |-> G_mul(keys.spend)]
\* CryptoNotePrivate::shared_secret
CryptoNotePrivate_shared_secret(keys, other_public) == SharedSecret_get(keys.view, other_public)
\* CryptoNotePrivate::derive_key
CryptoNotePrivate_derive_key(keys, secret) == SAdd(keys.spend, SharedSecret_as_scalar(secret))

\* CryptoNotePrivate::receive_internal
receive_internal(keys, recipient, commitment, transaction_key) ==
    LET secret == CryptoNotePrivate_shared_secret(keys, transaction_key)
        owner == CryptoNotePrivate_derive_key(keys, secret)
        value == SharedSecret_decrypt_amount(secret, recipient.encrypted_amount)
        blinding == SharedSecret_as_scalar(secret)
    IN  IF SharedSecret_get_view_tag(secret) # recipient.view_tag THEN None
        ELSE IF G_mul(owner) # recipient.public_key THEN None
        ELSE IF commit(value, blinding) # commitment THEN None
        ELSE Some(EnoteKeys_new(owner, value, blinding))

\* CryptoNotePrivate::receive
CryptoNotePrivate_receive(keys, recipient, commitment) ==
    IF recipient.transaction_key.tag = "Some"
    THEN receive_internal(keys, recipient, commitment, recipient.transaction_key.value)
    ELSE None

\* CryptoNotePrivate::receive_with_key
CryptoNotePrivate_receive_with_key(keys, recipient, commitment, transaction_key) ==
    receive_internal(keys, recipient, commitment, transaction_key)

\* CryptoNotePublic::shared_secret
CryptoNotePublic_shared_secret(address, other_private) == SharedSecret_get(other_private, address.view)
\* CryptoNotePublic::derive_key
CryptoNotePublic_derive_key(address, secret) ==
    PAdd(address.spend, G_mul(SharedSecret_as_scalar(secret)))

\* CryptoNotePublic::send_internal: (blinding, recipient)
send_internal(address, amount, transaction_sk, include_txn_key) ==
    LET transaction_key == IF include_txn_key THEN Some(G_mul(transaction_sk)) ELSE None
        secret == CryptoNotePublic_shared_secret(address, transaction_sk)
    IN  [blinding |-> SharedSecret_as_scalar(secret),
         recipient |-> [public_key |-> CryptoNotePublic_derive_key(address, secret),
                        transaction_key |-> transaction_key,
                        view_tag |-> SharedSecret_get_view_tag(secret),
                        encrypted_amount |-> SharedSecret_encrypt_amount(secret, amount)]]

\* CryptoNotePublic::send; Scalar::generate draws from the random tape
CryptoNotePublic_send(address, amount, drawn) ==
    LET seed == h_scalar(Concat(batch_encode_points(<<address.view, address.spend>>))
                            \o u64_to_le_bytes(amount))
    IN  send_internal(address, amount, SAdd(seed, random_scalar(drawn, 1)), TRUE)

\* CryptoNotePublic::send_with_key
CryptoNotePublic_send_with_key(address, amount, transaction_key) ==
    send_internal(address, amount, transaction_key, FALSE)

VARIABLES
    ring,                 \* the caller's Ring
    enote_keys,           \* the signer's EnoteKeys
    pseudo_out_blinding,  \* the blinding of the pseudo-output
    msg,                  \* the message to sign
    pc,                   \* "start", "signed" or "verified"
    sign_call,            \* the scheme and the entry point of the signing call
    sign_result,          \* what the signing call returned
    verify_call,          \* the verification call: entry point and arguments
    verify_result,        \* what the verification call returned
    in_openings,          \* the values and blindings committed to on the input side
    in_commitments,       \* the input commitments
    out_openings,         \* the values and blindings committed to on the output side
    out_commitments,      \* the output commitments
    extra,                \* the extra output (the fee) handed to is_balanced
    balanced,             \* what is_balanced returned
    range_value,          \* the value a Borromean proof is made for
    range_blinding,       \* its blinding
    tape,                 \* the random tape the prover draws from
    borromean_proved,     \* what BorromeanRangeProof::prove returned
    borromean_verified,   \* what BorromeanRangeProof::verify returned
    values,               \* the values handed to BulletPlusRangeProof::prove
    blindings,            \* the blindings handed to it
    bulletplus_proved,    \* what BulletPlusRangeProof::prove returned
    bulletplus_verified,  \* what BulletPlusRangeProof::verify returned
    batch_values,  \* the values of the last prove call made for a batch
    batch_blindings,  \* the blindings of that call
    batch_proved,  \* what that call returned
    batch_commitments,  \* the commitment groups collected for batch_verify
    batch_proofs,  \* the proofs collected for batch_verify
    batch_verified, \* what BulletPlusRangeProof::batch_verify returned
    wire_object,  \* the value handed to to_bytes, with what it is verified against
    wire_bytes,  \* what to_bytes returned
    wire_input,  \* the slice handed to from_bytes
    wire_decoded,  \* what from_bytes returned
    wire_verified, \* what verify returned for the original and for the restored value
    canon_ring,  \* the Ring that is built and sorted
    canon_before,  \* the ring as it was before the last Ring::sort
    canon_sorts,  \* the calls of Ring::sort since the ring was last changed by hand
    canon_is_sorted, \* what Ring::is_sorted returned for the ring as it is
    zero_call,  \* the call of sign_internal that returned, with its arguments
    zero_memory, \* what the call left in its locals and in its EnoteKeys argument
    call_stack, \* the functions that are entered and have not returned, outermost first
    shape_call,  \* the verification call that returned, with its arguments
    shape_result, \* what the call returned
    digits_call, \* the commitment and the proof handed to BorromeanRangeProof::verify
    wallet,  \* the MasterPrivateKeys or the MasterPrivateView, with its lookup table
    overflow_checks,  \* whether the build checks integer overflow
    covered,  \* the coordinates that init and init_coordinates have covered since the table was last replaced
    touched,  \* whether init, init_coordinates or import_coordinates was called
    ever,  \* the coordinates that were initialized by any call
    sub_call,  \* the last call on the wallet, with its arguments
    sub_result, \* what the call returned
    cn_keys,  \* the CryptoNotePrivate keys of the receiver
    cn_sent,  \* the last call of send or send_with_key on the public keys, with what it returned
    cn_received, \* the last call of receive or receive_with_key, with what it returned
    ecdh_keys,  \* the ECDH private keys of the two parties
    ecdh_call, \* the last exchange between the two parties, with what each side computed
    binding_call, \* the commitments handed to BulletPlusRangeProof::verify with the proof that was made
    quat  \* the call of quaternary that is running or has returned: its argument and its locals

signature_vars == <<ring, enote_keys, pseudo_out_blinding, msg, pc, sign_call, sign_result,
                    verify_call, verify_result>>
balance_vars == <<in_openings, in_commitments, out_openings, out_commitments, extra, balanced>>
borromean_vars == <<range_value, range_blinding, tape, borromean_proved, borromean_verified>>
bulletplus_vars == <<values, blindings, bulletplus_proved, bulletplus_verified>>
batch_vars == <<batch_values, batch_blindings, batch_proved, batch_commitments, batch_proofs, batch_verified>>
wire_vars == <<wire_object, wire_bytes, wire_input, wire_decoded, wire_verified>>
canon_vars == <<canon_ring, canon_before, canon_sorts, canon_is_sorted>>
zero_vars == <<zero_call, zero_memory>>
calls_vars == <<call_stack>>
shape_vars == <<shape_call, shape_result>>
digits_vars == <<digits_call>>
subaddress_vars == <<wallet, overflow_checks, covered, touched, ever, sub_call, sub_result>>
cryptonote_vars == <<cn_keys, cn_sent, cn_received>>
ecdh_vars == <<ecdh_keys, ecdh_call>>
binding_vars == <<binding_call>>
quaternary_vars == <<quat>>
vars == <<signature_vars, balance_vars, borromean_vars, bulletplus_vars, batch_vars, wire_vars, canon_vars, zero_vars, calls_vars, shape_vars, digits_vars, subaddress_vars, cryptonote_vars, ecdh_vars, binding_vars, quaternary_vars>>

\* the components at rest
NoSignature ==
    /\ ring = << >>
    /\ enote_keys = EnoteKeys_new(Scalar_zero, 0, Scalar_zero)
    /\ pseudo_out_blinding = Scalar_zero
    /\ msg = << >>
    /\ pc = "start"
    /\ sign_call = [scheme |-> "none", fn |-> "none"]
    /\ sign_result = [tag |-> "none"]
    /\ verify_call = [fn |-> "none"]
    /\ verify_result = [tag |-> "none"]

NoBalance ==
    /\ in_openings = << >>
    /\ in_commitments = << >>
    /\ out_openings = << >>
    /\ out_commitments = << >>
    /\ extra = 0
    /\ balanced = [tag |-> "none"]

NoBorromean ==
    /\ range_value = 0
    /\ range_blinding = Scalar_zero
    /\ tape = 0
    /\ borromean_proved = [tag |-> "none"]
    /\ borromean_verified = [tag |-> "none"]

NoBulletplus ==
    /\ values = << >>
    /\ blindings = << >>
    /\ bulletplus_proved = [tag |-> "none"]
    /\ bulletplus_verified = [tag |-> "none"]

NoBatch ==
    /\ batch_values = << >>
    /\ batch_blindings = << >>
    /\ batch_proved = [tag |-> "none"]
    /\ batch_commitments = << >>
    /\ batch_proofs = << >>
    /\ batch_verified = [tag |-> "none"]

NoWire ==
    /\ wire_object = [kind |-> "none"]
    /\ wire_bytes = [tag |-> "none"]
    /\ wire_input = << >>
    /\ wire_decoded = [tag |-> "none"]
    /\ wire_verified = [tag |-> "none"]

NoCanon ==
    /\ canon_ring = << >>
    /\ canon_before = [tag |-> "none"]
    /\ canon_sorts = 0
    /\ canon_is_sorted = [tag |-> "none"]

NoZero ==
    /\ zero_call = [scheme |-> "none"]
    /\ zero_memory = [tag |-> "none"]

NoCalls ==
    /\ call_stack = << >>

NoShape ==
    /\ shape_call = [fn |-> "none"]
    /\ shape_result = [tag |-> "none"]

NoDigits ==
    /\ digits_call = [tag |-> "none"]

NoSubaddress ==
    /\ wallet = [kind |-> "none"]
    /\ overflow_checks = FALSE
    /\ covered = {}
    /\ touched = FALSE
    /\ ever = {}
    /\ sub_call = [fn |-> "none"]
    /\ sub_result = [tag |-> "none"]

NoCryptonote ==
    /\ cn_keys = [view |-> Scalar_zero, spend |-> Scalar_zero]
    /\ cn_sent = [fn |-> "none"]
    /\ cn_received = [fn |-> "none"]

NoEcdh ==
    /\ ecdh_keys = [sk1 |-> Scalar_zero, sk2 |-> Scalar_zero]
    /\ ecdh_call = [fn |-> "none"]

NoBinding ==
    /\ binding_call = [tag |-> "none"]

NoQuaternary ==
    /\ quat = [tag |-> "none"]

Init ==
    /\ ring \in Rings
    /\ enote_keys \in SignerKeys
    /\ pseudo_out_blinding \in { Scalar_from(b) : b \in 0..MaxBlind }
    /\ msg \in Messages
    /\ pc = "start"
    /\ sign_call = [scheme |-> "none", fn |-> "none"]
    /\ sign_result = [tag |-> "none"]
    /\ verify_call = [fn |-> "none"]
    /\ verify_result = [tag |-> "none"]
    /\ NoBalance /\ NoBorromean /\ NoBulletplus /\ NoBatch /\ NoWire /\ NoCanon /\ NoZero /\ NoCalls /\ NoShape /\ NoDigits /\ NoSubaddress /\ NoCryptonote /\ NoEcdh /\ NoBinding /\ NoQuaternary

\* a signing call that leaves the caller's ring alone
Signed(scheme, fn, result) ==
    /\ pc = "start"
    /\ pc' = "signed"
    /\ sign_call' = [scheme |-> scheme, fn |-> fn]
    /\ sign_result' = result
    /\ UNCHANGED <<ring, enote_keys, pseudo_out_blinding, msg, verify_call, verify_result>>
    /\ UNCHANGED <<balance_vars, borromean_vars, bulletplus_vars, batch_vars, wire_vars, canon_vars, zero_vars, calls_vars, shape_vars, digits_vars, subaddress_vars, cryptonote_vars, ecdh_vars, binding_vars, quaternary_vars>>

CLSAGSign ==
    Signed("CLSAG", "sign", clsag_sign(ring, enote_keys, pseudo_out_blinding, msg))

CLSAGSignUnsorted ==
    Signed("CLSAG", "sign_unsorted",
           clsag_sign_unsorted(ring, enote_keys, pseudo_out_blinding, msg))

MLSAGSign ==
    Signed("MLSAG", "sign", mlsag_sign(ring, enote_keys, pseudo_out_blinding, msg))

MLSAGSignUnsorted ==
    Signed("MLSAG", "sign_unsorted",
           mlsag_sign_unsorted(ring, enote_keys, pseudo_out_blinding, msg))

\* sign_and_sort also replaces the caller's ring
MLSAGSignAndSort ==
    LET r == mlsag_sign_and_sort(ring, enote_keys, pseudo_out_blinding, msg)
    IN  /\ pc = "start"
        /\ pc' = "signed"
        /\ sign_call' = [scheme |-> "MLSAG", fn |-> "sign_and_sort"]
        /\ sign_result' = r.result
        /\ ring' = r.ring
        /\ UNCHANGED <<enote_keys, pseudo_out_blinding, msg, verify_call, verify_result>>
        /\ UNCHANGED <<balance_vars, borromean_vars, bulletplus_vars, batch_vars, wire_vars, canon_vars, zero_vars, calls_vars, shape_vars, digits_vars, subaddress_vars, cryptonote_vars, ecdh_vars, binding_vars, quaternary_vars>>

\* the arguments a verifier may be handed after a successful signing call:
\* what was returned, or that with one argument altered
Untouched ==
    [kind |-> "none", signature |-> sign_result.signature, ring |-> ring,
     pseudo_out |-> sign_result.pseudo_out, msg |-> msg]

\* the orderings of the ring that differ from it
Reorderings(r) ==
    { [i \in 1..Len(r) |-> r[p[i]]] : p \in Permutations(1..Len(r)) } \ {r}

\* the signature with one response scalar or the stored challenge changed
AlteredSignatures ==
    LET sig == sign_result.signature
    IN  IF sign_call.scheme = "CLSAG"
        THEN { [kind |-> "challenge", signature |-> [sig EXCEPT !.c_0 = SAdd(sig.c_0, Scalar_one)]] }
             \cup { [kind |-> "s", signature |-> [sig EXCEPT !.s[i] = SAdd(sig.s[i], Scalar_one)]] :
                      i \in 1..Len(sig.s) }
        ELSE { [kind |-> "challenge", signature |-> [sig EXCEPT !.e_0 = SAdd(sig.e_0, Scalar_one)]] }
             \cup { [kind |-> "s", signature |-> [sig EXCEPT !.s[row][i] = SAdd(sig.s[row][i], Scalar_one)]] :
                      row \in 1..2, i \in 1..Len(sig.s[1]) }

VerifierArguments ==
    {Untouched}
    \cup { [Untouched EXCEPT !.kind = "msg", !.msg = m] : m \in Messages \ {msg} }
    \cup { [Untouched EXCEPT !.kind = "pseudo_out", !.pseudo_out = PAdd(@, d)] :
             d \in {PEDERSEN_G_POINT, PEDERSEN_H_POINT} }
    \cup { [Untouched EXCEPT !.kind = a.kind, !.signature = a.signature] :
             a \in AlteredSignatures }
    \cup { [Untouched EXCEPT !.kind = "ring_order", !.ring = r] : r \in Reorderings(ring) }
    \cup { [Untouched EXCEPT !.kind = "ring_prefix", !.ring = SubSeq(ring, 1, k)] :
             k \in 0..(Len(ring) - 1) }

\* a verification call on a signature of the scheme
CanVerify(scheme) ==
    /\ pc = "signed"
    /\ sign_call.scheme = scheme
    /\ sign_result.tag = "Ok"

Verified(fn, args, result) ==
    /\ pc' = "verified"
    /\ verify_call' = [fn |-> fn, kind |-> args.kind, signature |-> args.signature,
                       ring |-> args.ring, pseudo_out |-> args.pseudo_out, msg |-> args.msg]
    /\ verify_result' = result
    /\ UNCHANGED <<ring, enote_keys, pseudo_out_blinding, msg, sign_call, sign_result>>
    /\ UNCHANGED <<balance_vars, borromean_vars, bulletplus_vars, batch_vars, wire_vars, canon_vars, zero_vars, calls_vars, shape_vars, digits_vars, subaddress_vars, cryptonote_vars, ecdh_vars, binding_vars, quaternary_vars>>

CLSAGVerify ==
    /\ CanVerify("CLSAG")
    /\ \E a \in VerifierArguments :
          Verified("verify", a, clsag_verify(a.signature, a.ring, a.pseudo_out, a.msg))

CLSAGVerifyUnsorted ==
    /\ CanVerify("CLSAG")
    /\ \E a \in VerifierArguments :
          Verified("verify_unsorted", a,
                   clsag_verify_unsorted(a.signature, a.ring, a.pseudo_out, a.msg))

MLSAGVerify ==
    /\ CanVerify("MLSAG")
    /\ \E a \in VerifierArguments :
          Verified("verify", a, mlsag_verify(a.signature, a.ring, a.pseudo_out, a.msg))

MLSAGVerifyUnsorted ==
    /\ CanVerify("MLSAG")
    /\ \E a \in VerifierArguments :
          Verified("verify_unsorted", a,
                   mlsag_verify_unsorted(a.signature, a.ring, a.pseudo_out, a.msg))

Next ==
    \/ CLSAGSign
    \/ CLSAGSignUnsorted
    \/ MLSAGSign
    \/ MLSAGSignUnsorted
    \/ MLSAGSignAndSort
    \/ CLSAGVerify
    \/ CLSAGVerifyUnsorted
    \/ MLSAGVerify
    \/ MLSAGVerifyUnsorted

Spec == Init /\ [][Next]_vars

(***************************************************************************)
(* The callers of Commitment: commitments are made for the two sides of a  *)
(* balance, then is_balanced is asked                                      *)
(***************************************************************************)
InitBalance == NoSignature /\ NoBalance /\ NoBorromean /\ NoBulletplus /\ NoBatch /\ NoWire /\ NoCanon /\ NoZero /\ NoCalls /\ NoShape /\ NoDigits /\ NoSubaddress /\ NoCryptonote /\ NoEcdh /\ NoBinding /\ NoQuaternary

\* Commitment::commit for an input
CommitInput ==
    /\ balanced.tag = "none"
    /\ Len(in_commitments) < MaxCommitments
    /\ \E o \in BalanceOpenings :
          /\ in_openings' = Append(in_openings, o)
          /\ in_commitments' = Append(in_commitments, commit(o.value, o.blinding))
    /\ UNCHANGED <<out_openings, out_commitments, extra, balanced>>
    /\ UNCHANGED <<signature_vars, borromean_vars, bulletplus_vars, batch_vars, wire_vars, canon_vars, zero_vars, calls_vars, shape_vars, digits_vars, subaddress_vars, cryptonote_vars, ecdh_vars, binding_vars, quaternary_vars>>

\* Commitment::commit for an output
CommitOutput ==
    /\ balanced.tag = "none"
    /\ Len(out_commitments) < MaxCommitments
    /\ \E o \in BalanceOpenings :
          /\ out_openings' = Append(out_openings, o)
          /\ out_commitments' = Append(out_commitments, commit(o.value, o.blinding))
    /\ UNCHANGED <<in_openings, in_commitments, extra, balanced>>
    /\ UNCHANGED <<signature_vars, borromean_vars, bulletplus_vars, batch_vars, wire_vars, canon_vars, zero_vars, calls_vars, shape_vars, digits_vars, subaddress_vars, cryptonote_vars, ecdh_vars, binding_vars, quaternary_vars>>

\* Commitment::is_balanced
IsBalanced ==
    /\ balanced.tag = "none"
    /\ \E x \in 0..MaxExtra :
          /\ extra' = x
          /\ balanced' = [tag |-> "returned",
                        value |-> is_balanced(in_commitments, out_commitments, x)]
    /\ UNCHANGED <<in_openings, in_commitments, out_openings, out_commitments>>
    /\ UNCHANGED <<signature_vars, borromean_vars, bulletplus_vars, batch_vars, wire_vars, canon_vars, zero_vars, calls_vars, shape_vars, digits_vars, subaddress_vars, cryptonote_vars, ecdh_vars, binding_vars, quaternary_vars>>

NextBalance == CommitInput \/ CommitOutput \/ IsBalanced

SpecBalance == InitBalance /\ [][NextBalance]_vars

(***************************************************************************)
(* The callers of BorromeanRangeProof: prove, then verify what it returned *)
(***************************************************************************)
InitBorromean ==
    /\ range_value \in U64
    /\ range_blinding \in RangeBlindings
    /\ tape \in 1..MaxTape
    /\ borromean_proved = [tag |-> "none"]
    /\ borromean_verified = [tag |-> "none"]
    /\ NoSignature /\ NoBalance /\ NoBulletplus /\ NoBatch /\ NoWire /\ NoCanon /\ NoZero /\ NoCalls /\ NoShape /\ NoDigits /\ NoSubaddress /\ NoCryptonote /\ NoEcdh /\ NoBinding /\ NoQuaternary

BorromeanProve ==
    /\ borromean_proved.tag = "none"
    /\ borromean_proved' = borromean_prove(range_value, range_blinding, tape)
    /\ UNCHANGED <<range_value, range_blinding, tape, borromean_verified>>
    /\ UNCHANGED <<signature_vars, balance_vars, bulletplus_vars, batch_vars, wire_vars, canon_vars, zero_vars, calls_vars, shape_vars, digits_vars, subaddress_vars, cryptonote_vars, ecdh_vars, binding_vars, quaternary_vars>>

BorromeanVerify ==
    /\ borromean_proved.tag = "Ok"
    /\ borromean_verified.tag = "none"
    /\ borromean_verified' =
          borromean_range_verify(borromean_proved.commitment, borromean_proved.proof)
    /\ UNCHANGED <<range_value, range_blinding, tape, borromean_proved>>
    /\ UNCHANGED <<signature_vars, balance_vars, bulletplus_vars, batch_vars, wire_vars, canon_vars, zero_vars, calls_vars, shape_vars, digits_vars, subaddress_vars, cryptonote_vars, ecdh_vars, binding_vars, quaternary_vars>>

NextBorromean == BorromeanProve \/ BorromeanVerify

SpecBorromean == InitBorromean /\ [][NextBorromean]_vars

(***************************************************************************)
(* The callers of BulletPlusRangeProof: values and blindings are collected,*)
(* prove is called on them, then verify on what it returned                *)
(***************************************************************************)
InitBulletplus == NoSignature /\ NoBalance /\ NoBorromean /\ NoBulletplus /\ NoBatch /\ NoWire /\ NoCanon /\ NoZero /\ NoCalls /\ NoShape /\ NoDigits /\ NoSubaddress /\ NoCryptonote /\ NoEcdh /\ NoBinding /\ NoQuaternary

\* one more value, with its blinding, for the proof
PushOpening ==
    /\ bulletplus_proved.tag = "none"
    /\ Len(values) <= MAX_AGGREGATION_SIZE
    /\ \E o \in AggregatedOpenings :
          /\ values' = Append(values, o.value)
          /\ blindings' = Append(blindings, o.blinding)
    /\ UNCHANGED <<bulletplus_proved, bulletplus_verified>>
    /\ UNCHANGED <<signature_vars, balance_vars, borromean_vars, batch_vars, wire_vars, canon_vars, zero_vars, calls_vars, shape_vars, digits_vars, subaddress_vars, cryptonote_vars, ecdh_vars, binding_vars, quaternary_vars>>

BulletplusProve ==
    /\ bulletplus_proved.tag = "none"
    /\ bulletplus_proved' = bulletplus_prove(values, blindings)
    /\ UNCHANGED <<values, blindings, bulletplus_verified>>
    /\ UNCHANGED <<signature_vars, balance_vars, borromean_vars, batch_vars, wire_vars, canon_vars, zero_vars, calls_vars, shape_vars, digits_vars, subaddress_vars, cryptonote_vars, ecdh_vars, binding_vars, quaternary_vars>>

BulletplusVerify ==
    /\ bulletplus_proved.tag = "Ok"
    /\ bulletplus_verified.tag = "none"
    /\ bulletplus_verified' =
          bulletplus_verify(bulletplus_proved.commitments, bulletplus_proved.proof)
    /\ UNCHANGED <<values, blindings, bulletplus_proved>>
    /\ UNCHANGED <<signature_vars, balance_vars, borromean_vars, batch_vars, wire_vars, canon_vars, zero_vars, calls_vars, shape_vars, digits_vars, subaddress_vars, cryptonote_vars, ecdh_vars, binding_vars, quaternary_vars>>

NextBulletplus == PushOpening \/ BulletplusProve \/ BulletplusVerify

SpecBulletplus == InitBulletplus /\ [][NextBulletplus]_vars

(***************************************************************************)
(* The callers of BulletPlusRangeProof::batch_verify: proofs are made one  *)
(* by one and collected with their commitments, or with other commitments, *)
(* then the batch is verified                                              *)
(***************************************************************************)
InitBatch == NoSignature /\ NoBalance /\ NoBorromean /\ NoBulletplus /\ NoBatch /\ NoWire /\ NoCanon /\ NoZero /\ NoCalls /\ NoShape /\ NoDigits /\ NoSubaddress /\ NoCryptonote /\ NoEcdh /\ NoBinding /\ NoQuaternary

\* prove, then push the commitments and the proof; when prove refuses the
\* input, the commitments are pushed with the proof of its first value
ProveForBatch ==
    /\ batch_verified.tag = "none"
    /\ Len(batch_commitments) < MaxBatch
    /\ \E input \in BatchInputs, honest \in BOOLEAN :
        \E r \in { bulletplus_prove(input.values, input.blindings) },
           spare \in { bulletplus_prove(SubSeq(input.values, 1, 1),
                                        SubSeq(input.blindings, 1, 1)) } :
          LET all == [i \in 1..Len(input.values) |->
                        commit(input.values[i], input.blindings[i])]
          IN  /\ batch_values' = input.values
              /\ batch_blindings' = input.blindings
              /\ batch_proved' = r
              /\ batch_commitments' =
                    Append(batch_commitments,
                           IF r.tag # "Ok" THEN all
                           ELSE IF honest THEN r.commitments ELSE Tampered(r.commitments))
              /\ batch_proofs' = Append(batch_proofs,
                                        IF r.tag = "Ok" THEN r.proof ELSE spare.proof)
    /\ UNCHANGED batch_verified
    /\ UNCHANGED <<signature_vars, balance_vars, borromean_vars, bulletplus_vars, wire_vars, canon_vars, zero_vars, calls_vars, shape_vars, digits_vars, subaddress_vars, cryptonote_vars, ecdh_vars, binding_vars, quaternary_vars>>

BatchVerify ==
    /\ batch_verified.tag = "none"
    /\ batch_verified' = bulletplus_batch_verify(batch_commitments, batch_proofs)
    /\ UNCHANGED <<batch_values, batch_blindings, batch_proved, batch_commitments, batch_proofs>>
    /\ UNCHANGED <<signature_vars, balance_vars, borromean_vars, bulletplus_vars, wire_vars, canon_vars, zero_vars, calls_vars, shape_vars, digits_vars, subaddress_vars, cryptonote_vars, ecdh_vars, binding_vars, quaternary_vars>>

NextBatch == ProveForBatch \/ BatchVerify

SpecBatch == InitBatch /\ [][NextBatch]_vars

(***************************************************************************)
(* The callers of both range proofs: a value is proved with a Borromean    *)
(* proof, then with a Bulletproofs+ proof of that value alone              *)
(***************************************************************************)
InitRange ==
    /\ range_value \in U64
    /\ range_blinding \in RangeBlindings
    /\ tape \in 1..MaxTape
    /\ borromean_proved = [tag |-> "none"]
    /\ borromean_verified = [tag |-> "none"]
    /\ NoSignature /\ NoBalance /\ NoBulletplus /\ NoBatch /\ NoWire /\ NoCanon /\ NoZero /\ NoCalls /\ NoShape /\ NoDigits /\ NoSubaddress /\ NoCryptonote /\ NoEcdh /\ NoBinding /\ NoQuaternary

BulletplusProveOne ==
    /\ borromean_proved.tag # "none"
    /\ bulletplus_proved.tag = "none"
    /\ values' = <<range_value>>
    /\ blindings' = <<range_blinding>>
    /\ bulletplus_proved' = bulletplus_prove(<<range_value>>, <<range_blinding>>)
    /\ UNCHANGED bulletplus_verified
    /\ UNCHANGED <<signature_vars, balance_vars, borromean_vars, batch_vars, wire_vars, canon_vars, zero_vars, calls_vars, shape_vars, digits_vars, subaddress_vars, cryptonote_vars, ecdh_vars, binding_vars, quaternary_vars>>

NextRange == BorromeanProve \/ BulletplusProveOne

SpecRange == InitRange /\ [][NextRange]_vars

(***************************************************************************)
(* The callers of BorromeanRangeProof::verify: a value is proved, then the *)
(* proof, or an altered one, is verified against the commitment that prove *)
(* returned or against another one                                         *)
(***************************************************************************)
InitDigits ==
    /\ range_value \in U64
    /\ range_blinding \in RangeBlindings
    /\ tape \in 1..MaxTape
    /\ borromean_proved = [tag |-> "none"]
    /\ borromean_verified = [tag |-> "none"]
    /\ NoSignature /\ NoBalance /\ NoBulletplus /\ NoBatch /\ NoWire /\ NoCanon /\ NoZero /\ NoCalls /\ NoShape /\ NoDigits /\ NoSubaddress /\ NoCryptonote /\ NoEcdh /\ NoBinding /\ NoQuaternary

BorromeanVerifyAgainst ==
    /\ borromean_proved.tag = "Ok"
    /\ borromean_verified.tag = "none"
    /\ \E commitment \in DigitCommitments(borromean_proved), proof \in DigitProofs(borromean_proved) :
          /\ digits_call' = [tag |-> "verify", commitment |-> commitment, proof |-> proof]
          /\ borromean_verified' = borromean_range_verify(commitment, proof)
    /\ UNCHANGED <<range_value, range_blinding, tape, borromean_proved>>
    /\ UNCHANGED <<signature_vars, balance_vars, bulletplus_vars, batch_vars, wire_vars, canon_vars, zero_vars, calls_vars, shape_vars, subaddress_vars, cryptonote_vars, ecdh_vars, binding_vars, quaternary_vars>>

NextDigits == BorromeanProve \/ BorromeanVerifyAgainst

SpecDigits == InitDigits /\ [][NextDigits]_vars

(***************************************************************************)
(* The subaddress wallet: a MasterPrivateKeys or a MasterPrivateView whose  *)
(* lookup table is filled by init, init_coordinates and import_coordinates, *)
(* and that is asked for subaddresses and for the coordinates of derived    *)
(* keys.                                                                    *)
(***************************************************************************)
\* the largest argument of init and the largest coordinate asked for
MaxCoordinate == 2
Coordinates == (0..MaxCoordinate) \X (0..MaxCoordinate)
\* the coordinates handed to init_coordinates
SingleCoordinates == { <<0, 1>>, <<MaxCoordinate, MaxCoordinate>> }
\* the encoded coordinates handed to import_coordinates
ImportedBytes == { <<1>>, <<0, 1, MaxCoordinate, 0>> }
\* the private view and spend keys of the wallet
WalletKeys == { <<3, 5>> }
\* the shared secrets of a sender's transaction key with the wallet
WalletSecrets(keys) == { SharedSecret_get(keys.view, G_mul(t)) : t \in { 7 } }

\* the call on the kind of wallet there is
WalletInit(w, x, y, checks) ==
    IF w.kind = "keys" THEN MasterPrivateKeys_init(w.keys, x, y, checks)
    ELSE MasterPrivateView_init(w.keys, x, y, checks)
WalletInitCoordinates(w, coordinates) ==
    IF w.kind = "keys" THEN MasterPrivateKeys_init_coordinates(w.keys, coordinates)
    ELSE MasterPrivateView_init_coordinates(w.keys, coordinates)
WalletImportCoordinates(w, bytes) ==
    IF w.kind = "keys" THEN MasterPrivateKeys_import_coordinates(w.keys, bytes)
    ELSE MasterPrivateView_import_coordinates(w.keys, bytes)
WalletGetSubaddress(w, coordinates) ==
    IF w.kind = "keys" THEN MasterPrivateKeys_get_subaddress(w.keys, coordinates)
    ELSE MasterPrivateView_get_subaddress(w.keys, coordinates)

\* the one-time keys a sender derives from the subaddresses the wallet hands out
DerivedKeys(w, secret) ==
    { SubaddressPublic_derive_key(WalletGetSubaddress(w, c).subaddress, secret) :
        c \in { d \in Coordinates : WalletGetSubaddress(w, d).tag = "Ok" } }

InitSubaddress ==
    /\ \E kind \in {"keys", "view"}, k \in WalletKeys :
        LET keys == MasterPrivateKeys_from_keys(k[1], k[2])
        IN  wallet = [kind |-> kind,
                      keys |-> IF kind = "keys" THEN keys ELSE MasterPrivateKeys_to_view_only(keys)]
    /\ overflow_checks \in BOOLEAN
    /\ covered = {}
    /\ touched = FALSE
    /\ ever = {}
    /\ sub_call = [fn |-> "none"]
    /\ sub_result = [tag |-> "none"]
    /\ NoSignature /\ NoBalance /\ NoBorromean /\ NoBulletplus /\ NoBatch /\ NoWire /\ NoCanon /\ NoZero /\ NoCalls /\ NoShape /\ NoDigits /\ NoCryptonote /\ NoEcdh /\ NoBinding /\ NoQuaternary

\* wallet.init(x, y)
SubaddressInit ==
    /\ \E x \in 0..MaxCoordinate, y \in 0..MaxCoordinate :
        LET r == WalletInit(wallet, x, y, overflow_checks)
        IN  /\ wallet' = [wallet EXCEPT !.keys = r.keys]
            /\ sub_call' = [fn |-> "init", x |-> x, y |-> y]
            /\ sub_result' = [tag |-> r.tag]
            /\ covered' = IF r.tag = "Ok" THEN covered \cup ((0..(x - 1)) \X (0..(y - 1)))
                          ELSE covered
            /\ ever' = IF r.tag = "Ok" THEN ever \cup ((0..(x - 1)) \X (0..(y - 1))) ELSE ever
    /\ touched' = TRUE
    /\ UNCHANGED overflow_checks
    /\ UNCHANGED <<signature_vars, balance_vars, borromean_vars, bulletplus_vars, batch_vars, wire_vars, canon_vars, zero_vars, calls_vars, shape_vars, digits_vars, cryptonote_vars, ecdh_vars, binding_vars, quaternary_vars>>

\* wallet.init_coordinates(c)
SubaddressInitCoordinates ==
    /\ \E c \in SingleCoordinates :
        /\ wallet' = [wallet EXCEPT !.keys = WalletInitCoordinates(wallet, c)]
        /\ sub_call' = [fn |-> "init_coordinates", coordinates |-> c]
        /\ covered' = covered \cup {c}
        /\ ever' = ever \cup {c}
    /\ sub_result' = [tag |-> "Ok"]
    /\ touched' = TRUE
    /\ UNCHANGED overflow_checks
    /\ UNCHANGED <<signature_vars, balance_vars, borromean_vars, bulletplus_vars, batch_vars, wire_vars, canon_vars, zero_vars, calls_vars, shape_vars, digits_vars, cryptonote_vars, ecdh_vars, binding_vars, quaternary_vars>>

\* wallet.import_coordinates(bytes): the table is replaced
SubaddressImportCoordinates ==
    /\ \E bytes \in ImportedBytes :
        LET r == WalletImportCoordinates(wallet, bytes)
        IN  /\ wallet' = [wallet EXCEPT !.keys = r.keys]
            /\ sub_call' = [fn |-> "import_coordinates", bytes |-> bytes]
            /\ sub_result' = [tag |-> r.tag]
            /\ covered' = IF r.tag = "Ok" THEN {} ELSE covered
            /\ ever' = IF r.tag = "Ok"
                       THEN ever \cup
                            { <<bytes[2 * i - 1], bytes[2 * i]>> : i \in 1..(Len(bytes) \div 2) }
                       ELSE ever
    /\ touched' = TRUE
    /\ UNCHANGED overflow_checks
    /\ UNCHANGED <<signature_vars, balance_vars, borromean_vars, bulletplus_vars, batch_vars, wire_vars, canon_vars, zero_vars, calls_vars, shape_vars, digits_vars, cryptonote_vars, ecdh_vars, binding_vars, quaternary_vars>>

\* wallet.get_subaddress(c)
SubaddressGet ==
    /\ \E c \in Coordinates :
        /\ sub_call' = [fn |-> "get_subaddress", coordinates |-> c]
        /\ sub_result' = WalletGetSubaddress(wallet, c)
    /\ UNCHANGED <<wallet, overflow_checks, covered, touched, ever>>
    /\ UNCHANGED <<signature_vars, balance_vars, borromean_vars, bulletplus_vars, batch_vars, wire_vars, canon_vars, zero_vars, calls_vars, shape_vars, digits_vars, cryptonote_vars, ecdh_vars, binding_vars, quaternary_vars>>

\* wallet.recover_coordinates(P, ss), for a one-time key P derived from one of
\* the wallet's subaddresses or for a key of somebody else
SubaddressRecoverCoordinates ==
    /\ \E secret \in WalletSecrets(wallet.keys) :
        \E public_key \in DerivedKeys(wallet, secret) \cup {G_POINT} :
            /\ sub_call' = [fn |-> "recover_coordinates", public_key |-> public_key, secret |-> secret]
            /\ sub_result' = recover_coordinates(wallet.keys, public_key, secret)
    /\ UNCHANGED <<wallet, overflow_checks, covered, touched, ever>>
    /\ UNCHANGED <<signature_vars, balance_vars, borromean_vars, bulletplus_vars, batch_vars, wire_vars, canon_vars, zero_vars, calls_vars, shape_vars, digits_vars, cryptonote_vars, ecdh_vars, binding_vars, quaternary_vars>>

NextSubaddress ==
    \/ SubaddressInit
    \/ SubaddressInitCoordinates
    \/ SubaddressImportCoordinates
    \/ SubaddressGet
    \/ SubaddressRecoverCoordinates

SpecSubaddress == InitSubaddress /\ [][NextSubaddress]_vars

(***************************************************************************)
(* CryptoNote addresses: a sender sends an amount to the public keys of K,  *)
(* with send or with send_with_key, and K receives what was sent, with      *)
(* receive or with receive_with_key.                                        *)
(***************************************************************************)
\* the private keys of the receiver
CryptoNoteKeys == { [view |-> v, spend |-> 5] : v \in { Scalar_zero, 3, FILLER_SCALAR - 1 } }
\* the transaction keys handed to send_with_key
TransactionKeys == { 7, 11 }
\* the transaction public keys handed to receive_with_key
OfferedKeys == { G_mul(t) : t \in TransactionKeys } \cup { PEDERSEN_H_POINT }

InitCryptonote ==
    /\ cn_keys \in CryptoNoteKeys
    /\ cn_sent = [fn |-> "none"]
    /\ cn_received = [fn |-> "none"]
    /\ NoSignature /\ NoBalance /\ NoBorromean /\ NoBulletplus /\ NoBatch /\ NoWire /\ NoCanon /\ NoZero /\ NoCalls /\ NoShape /\ NoDigits /\ NoSubaddress /\ NoEcdh /\ NoBinding /\ NoQuaternary

\* K.to_public().send(amount)
CryptoNoteSend ==
    /\ cn_sent.fn = "none"
    /\ \E amount \in U64, drawn \in 0..MaxTape :
        LET sent == CryptoNotePublic_send(CryptoNotePrivate_to_public(cn_keys), amount, drawn)
        IN  cn_sent' = [fn |-> "send", amount |-> amount, transaction_sk |-> Scalar_zero,
                        blinding |-> sent.blinding, recipient |-> sent.recipient]
    /\ cn_received' = [fn |-> "none"]
    /\ UNCHANGED cn_keys
    /\ UNCHANGED <<signature_vars, balance_vars, borromean_vars, bulletplus_vars, batch_vars, wire_vars, canon_vars, zero_vars, calls_vars, shape_vars, digits_vars, subaddress_vars, ecdh_vars, binding_vars, quaternary_vars>>

\* K.to_public().send_with_key(amount, t)
CryptoNoteSendWithKey ==
    /\ cn_sent.fn = "none"
    /\ \E amount \in U64, t \in TransactionKeys :
        LET sent == CryptoNotePublic_send_with_key(CryptoNotePrivate_to_public(cn_keys), amount, t)
        IN  cn_sent' = [fn |-> "send_with_key", amount |-> amount, transaction_sk |-> t,
                        blinding |-> sent.blinding, recipient |-> sent.recipient]
    /\ cn_received' = [fn |-> "none"]
    /\ UNCHANGED cn_keys
    /\ UNCHANGED <<signature_vars, balance_vars, borromean_vars, bulletplus_vars, batch_vars, wire_vars, canon_vars, zero_vars, calls_vars, shape_vars, digits_vars, subaddress_vars, ecdh_vars, binding_vars, quaternary_vars>>

\* K.receive(&recipient, &commit(amount, blinding))
CryptoNoteReceive ==
    /\ cn_sent.fn # "none"
    /\ cn_received' = [fn |-> "receive", transaction_key |-> IDENTITY,
                       result |-> CryptoNotePrivate_receive(cn_keys, cn_sent.recipient,
                                      commit(cn_sent.amount, cn_sent.blinding))]
    /\ UNCHANGED <<cn_keys, cn_sent>>
    /\ UNCHANGED <<signature_vars, balance_vars, borromean_vars, bulletplus_vars, batch_vars, wire_vars, canon_vars, zero_vars, calls_vars, shape_vars, digits_vars, subaddress_vars, ecdh_vars, binding_vars, quaternary_vars>>

\* K.receive_with_key(&recipient, &commit(amount, blinding), transaction_key)
CryptoNoteReceiveWithKey ==
    /\ cn_sent.fn # "none"
    /\ \E transaction_key \in OfferedKeys :
        cn_received' = [fn |-> "receive_with_key", transaction_key |-> transaction_key,
                        result |-> CryptoNotePrivate_receive_with_key(cn_keys, cn_sent.recipient,
                                       commit(cn_sent.amount, cn_sent.blinding), transaction_key)]
    /\ UNCHANGED <<cn_keys, cn_sent>>
    /\ UNCHANGED <<signature_vars, balance_vars, borromean_vars, bulletplus_vars, batch_vars, wire_vars, canon_vars, zero_vars, calls_vars, shape_vars, digits_vars, subaddress_vars, ecdh_vars, binding_vars, quaternary_vars>>

NextCryptonote ==
    \/ CryptoNoteSend
    \/ CryptoNoteSendWithKey
    \/ CryptoNoteReceive
    \/ CryptoNoteReceiveWithKey

SpecCryptonote == InitCryptonote /\ [][NextCryptonote]_vars

(***************************************************************************)
(* ECDH: two parties with the private keys sk1 and sk2 compute the shared   *)
(* secret from the other's public key, and use it.                          *)
(***************************************************************************)
EcdhScalars == { Scalar_zero, 2, 3, FILLER_SCALAR - 1 }

InitEcdh ==
    /\ ecdh_keys \in [sk1 : EcdhScalars, sk2 : EcdhScalars]
    /\ ecdh_call = [fn |-> "none"]
    /\ NoSignature /\ NoBalance /\ NoBorromean /\ NoBulletplus /\ NoBatch /\ NoWire /\ NoCanon /\ NoZero /\ NoCalls /\ NoShape /\ NoDigits /\ NoSubaddress /\ NoCryptonote /\ NoBinding /\ NoQuaternary

\* what the two parties compute
ss1 == ECDHPrivateKey_shared_secret(ecdh_keys.sk1, ECDHPrivateKey_to_public(ecdh_keys.sk2))
ss2 == ECDHPrivateKey_shared_secret(ecdh_keys.sk2, ECDHPrivateKey_to_public(ecdh_keys.sk1))

\* sk1.shared_secret(&pk2) and sk2.shared_secret(&pk1), and their view tags
EcdhSharedSecret ==
    /\ ecdh_call' = [fn |-> "shared_secret", first |-> ss1, second |-> ss2,
                     first_tag |-> SharedSecret_get_view_tag(ss1),
                     second_tag |-> SharedSecret_get_view_tag(ss2)]
    /\ UNCHANGED ecdh_keys
    /\ UNCHANGED <<signature_vars, balance_vars, borromean_vars, bulletplus_vars, batch_vars, wire_vars, canon_vars, zero_vars, calls_vars, shape_vars, digits_vars, subaddress_vars, cryptonote_vars, binding_vars, quaternary_vars>>

\* ss2.decrypt_amount(ss1.encrypt_amount(a))
EcdhEncryptAmount ==
    /\ \E amount \in U64 :
        LET encrypted == SharedSecret_encrypt_amount(ss1, amount)
        IN  ecdh_call' = [fn |-> "encrypt_amount", amount |-> amount, encrypted |-> encrypted,
                          decrypted |-> SharedSecret_decrypt_amount(ss2, encrypted)]
    /\ UNCHANGED ecdh_keys
    /\ UNCHANGED <<signature_vars, balance_vars, borromean_vars, bulletplus_vars, batch_vars, wire_vars, canon_vars, zero_vars, calls_vars, shape_vars, digits_vars, subaddress_vars, cryptonote_vars, binding_vars, quaternary_vars>>

\* sk1.derive_key(ss1).to_public() and pk1.derive_key(ss2)
EcdhDeriveKey ==
    /\ ecdh_call' = [fn |-> "derive_key",
                     from_private |-> ECDHPrivateKey_to_public(ECDHPrivateKey_derive_key(ecdh_keys.sk1, ss1)),
                     from_public |-> ECDHPublicKey_derive_key(ECDHPrivateKey_to_public(ecdh_keys.sk1), ss2)]
    /\ UNCHANGED ecdh_keys
    /\ UNCHANGED <<signature_vars, balance_vars, borromean_vars, bulletplus_vars, batch_vars, wire_vars, canon_vars, zero_vars, calls_vars, shape_vars, digits_vars, subaddress_vars, cryptonote_vars, binding_vars, quaternary_vars>>

NextEcdh == EcdhSharedSecret \/ EcdhEncryptAmount \/ EcdhDeriveKey

SpecEcdh == InitEcdh /\ [][NextEcdh]_vars

(***************************************************************************)
(* A Bulletproofs+ proof that was made for one list of commitments is      *)
(* verified against that list or against another one.                      *)
(***************************************************************************)
\* the lists a verifier may be handed with the proof made for coms: coms,
\* coms with zero commitments in front up to the next power of two, coms
\* with a zero commitment behind, the list of the one zero commitment, the
\* empty list, and coms with its first commitment altered or dropped
OtherLists(coms) ==
    { coms,
      Repeat(ZERO_COMMITMENT, 2 ^ ceil_log2(Len(coms)) - Len(coms)) \o coms,
      coms \o <<ZERO_COMMITMENT>>,
      <<ZERO_COMMITMENT>>,
      << >> }
    \cup (IF Len(coms) = 0 THEN {} ELSE { Tampered(coms), Tail(coms) })

BulletplusVerifyAgainst ==
    /\ bulletplus_proved.tag = "Ok"
    /\ bulletplus_verified.tag = "none"
    /\ \E coms \in OtherLists(bulletplus_proved.commitments) :
          /\ binding_call' = [tag |-> "verify", commitments |-> coms]
          /\ bulletplus_verified' = bulletplus_verify(coms, bulletplus_proved.proof)
    /\ UNCHANGED <<values, blindings, bulletplus_proved>>
    /\ UNCHANGED <<signature_vars, balance_vars, borromean_vars, batch_vars, wire_vars, canon_vars, zero_vars, calls_vars, shape_vars, digits_vars, subaddress_vars, cryptonote_vars, ecdh_vars, quaternary_vars>>

NextBinding == PushOpening \/ BulletplusProve \/ BulletplusVerifyAgainst

SpecBinding == InitBulletplus /\ [][NextBinding]_vars

(***************************************************************************)
(* The loop of quaternary, one iteration at a time, in a call made by      *)
(* BorromeanRangeProof::prove for the value it is handed.                  *)
(***************************************************************************)
InitQuaternary ==
    /\ range_value \in U64
    /\ range_blinding \in RangeBlindings
    /\ tape \in 1..MaxTape
    /\ borromean_proved = [tag |-> "none"]
    /\ borromean_verified = [tag |-> "none"]
    /\ quat = [tag |-> "none"]
    /\ NoSignature /\ NoBalance /\ NoBulletplus /\ NoBatch /\ NoWire /\ NoCanon /\ NoZero /\ NoCalls /\ NoShape /\ NoDigits /\ NoSubaddress /\ NoCryptonote /\ NoEcdh /\ NoBinding

\* quaternary(value) is entered: the locals before the loop
QuaternaryEnter ==
    /\ quat.tag = "none"
    /\ range_value <= MAX_VALUE
    /\ quat' = [tag |-> "loop", n |-> range_value,
                st |-> [number |-> range_value, x |-> 0,
                        digits |-> [i \in 1..NUMBER_OF_PROOF_DIGITS |-> 0],
                        overrun |-> FALSE]]
    /\ UNCHANGED <<signature_vars, balance_vars, borromean_vars, bulletplus_vars, batch_vars, wire_vars, canon_vars, zero_vars, calls_vars, shape_vars, digits_vars, subaddress_vars, cryptonote_vars, ecdh_vars, binding_vars>>

\* one iteration of `while number != 0`; a write past the array panics
QuaternaryStep ==
    /\ quat.tag = "loop"
    /\ quat.st.number # 0
    /\ LET st == quaternary_step(quat.st)
       IN  quat' = [quat EXCEPT !.st = st, !.tag = IF st.overrun THEN "panicked" ELSE "loop"]
    /\ UNCHANGED <<signature_vars, balance_vars, borromean_vars, bulletplus_vars, batch_vars, wire_vars, canon_vars, zero_vars, calls_vars, shape_vars, digits_vars, subaddress_vars, cryptonote_vars, ecdh_vars, binding_vars>>

\* the loop is left and digits is returned
QuaternaryReturn ==
    /\ quat.tag = "loop"
    /\ quat.st.number = 0
    /\ quat' = [quat EXCEPT !.tag = "returned"]
    /\ UNCHANGED <<signature_vars, balance_vars, borromean_vars, bulletplus_vars, batch_vars, wire_vars, canon_vars, zero_vars, calls_vars, shape_vars, digits_vars, subaddress_vars, cryptonote_vars, ecdh_vars, binding_vars>>

NextQuaternary == QuaternaryEnter \/ QuaternaryStep \/ QuaternaryReturn

\* the call runs to its end once it is made
SpecQuaternary == InitQuaternary /\ [][NextQuaternary]_vars /\ WF_vars(NextQuaternary)

(***************************************************************************)
(* The callers of ToBytes: a value is serialized, a slice is deserialized, *)
(* and a restored signature or proof is verified like the original         *)
(***************************************************************************)
\* the serialized value
wire_value(object) ==
    CASE object.kind = "Scalar" -> object.scalar
      [] object.kind = "RistrettoPoint" -> object.point
      [] object.kind = "Commitment" -> object.commitment
      [] object.kind = "CLSAG" -> object.clsag
      [] object.kind = "MLSAG" -> object.mlsag
      [] object.kind = "Borromean" -> object.proof

\* to_bytes of the serialized value
wire_to_bytes(object) ==
    CASE object.kind = "Scalar" -> Scalar_to_bytes(object.scalar)
      [] object.kind = "RistrettoPoint" -> RistrettoPoint_to_bytes(object.point)
      [] object.kind = "Commitment" -> Commitment_to_bytes(object.commitment)
      [] object.kind = "CLSAG" -> CLSAGSignature_to_bytes(object.clsag)
      [] object.kind = "MLSAG" -> MLSAGSignature_to_bytes(object.mlsag)
      [] object.kind = "Borromean" -> BorromeanRangeProof_to_bytes(object.proof)

\* from_bytes of the type of the serialized value
wire_from_bytes(kind, bytes) ==
    CASE kind = "Scalar" -> Scalar_from_bytes(bytes)
      [] kind = "RistrettoPoint" -> RistrettoPoint_from_bytes(bytes)
      [] kind = "Commitment" -> Commitment_from_bytes(bytes)
      [] kind = "CLSAG" -> CLSAGSignature_from_bytes(bytes)
      [] kind = "MLSAG" -> MLSAGSignature_from_bytes(bytes)
      [] kind = "Borromean" -> BorromeanRangeProof_from_bytes(bytes)

\* verify of a signature or proof against what the serialized one came with
wire_verify(object, value) ==
    CASE object.kind = "CLSAG" -> clsag_verify(value, object.ring, object.pseudo_out, object.msg)
      [] object.kind = "MLSAG" -> mlsag_verify(value, object.ring, object.pseudo_out, object.msg)
      [] object.kind = "Borromean" -> borromean_range_verify(object.against, value)

InitBytes ==
    /\ \/ wire_object \in { [kind |-> "Scalar", scalar |-> s] : s \in WireScalars }
       \/ wire_object \in { [kind |-> "RistrettoPoint", point |-> q] : q \in WirePoints }
       \/ wire_object \in { [kind |-> "Commitment", commitment |-> q] : q \in WirePoints }
       \/ wire_object \in WireCLSAGSignatures
       \/ wire_object \in WireMLSAGSignatures
       \/ wire_object \in WireProofs
    /\ wire_bytes = [tag |-> "none"]
    /\ wire_input = << >>
    /\ wire_decoded = [tag |-> "none"]
    /\ wire_verified = [tag |-> "none"]
    /\ NoSignature /\ NoBalance /\ NoBorromean /\ NoBulletplus /\ NoBatch /\ NoCanon /\ NoZero /\ NoCalls /\ NoShape /\ NoDigits /\ NoSubaddress /\ NoCryptonote /\ NoEcdh /\ NoBinding /\ NoQuaternary

ToBytes ==
    /\ wire_bytes.tag = "none"
    /\ wire_bytes' = wire_to_bytes(wire_object)
    /\ UNCHANGED <<wire_object, wire_input, wire_decoded, wire_verified>>
    /\ UNCHANGED <<signature_vars, balance_vars, borromean_vars, bulletplus_vars, batch_vars, canon_vars, zero_vars, calls_vars, shape_vars, digits_vars, subaddress_vars, cryptonote_vars, ecdh_vars, binding_vars, quaternary_vars>>

FromBytes ==
    /\ wire_bytes.tag = "Ok"
    /\ wire_decoded.tag = "none"
    /\ \E input \in WireInputs(wire_bytes.bytes) :
         /\ wire_input' = input
         /\ wire_decoded' = wire_from_bytes(wire_object.kind, input)
    /\ UNCHANGED <<wire_object, wire_bytes, wire_verified>>
    /\ UNCHANGED <<signature_vars, balance_vars, borromean_vars, bulletplus_vars, batch_vars, canon_vars, zero_vars, calls_vars, shape_vars, digits_vars, subaddress_vars, cryptonote_vars, ecdh_vars, binding_vars, quaternary_vars>>

VerifyRestored ==
    /\ wire_object.kind \in {"CLSAG", "MLSAG", "Borromean"}
    /\ wire_decoded.tag = "Ok"
    /\ wire_verified.tag = "none"
    /\ \E verified \in { [which \in {"original", "restored"} |->
                               wire_verify(wire_object,
                                           IF which = "original" THEN wire_value(wire_object)
                                           ELSE wire_decoded.value)] } :
          wire_verified' = [tag |-> "returned",
                            original |-> verified["original"],
                            restored |-> verified["restored"]]
    /\ UNCHANGED <<wire_object, wire_bytes, wire_input, wire_decoded>>
    /\ UNCHANGED <<signature_vars, balance_vars, borromean_vars, bulletplus_vars, batch_vars, canon_vars, zero_vars, calls_vars, shape_vars, digits_vars, subaddress_vars, cryptonote_vars, ecdh_vars, binding_vars, quaternary_vars>>

NextBytes == ToBytes \/ FromBytes \/ VerifyRestored
SpecBytes == InitBytes /\ [][NextBytes]_vars

(***************************************************************************)
(* The callers of Ring: a ring is built by hand, sorted, and asked whether *)
(* it is sorted                                                            *)
(***************************************************************************)
\* the most calls of Ring::sort in a row
MaxSorts == 2

InitRing ==
    /\ canon_ring = Ring_new
    /\ canon_before = [tag |-> "none"]
    /\ canon_sorts = 0
    /\ canon_is_sorted = [tag |-> "none"]
    /\ NoSignature /\ NoBalance /\ NoBorromean /\ NoBulletplus /\ NoBatch /\ NoWire /\ NoZero /\ NoCalls /\ NoShape /\ NoDigits /\ NoSubaddress /\ NoCryptonote /\ NoEcdh /\ NoBinding /\ NoQuaternary

RingPush ==
    /\ Len(canon_ring) < MaxRing
    /\ \E e \in RingEnotes : canon_ring' = Ring_push(canon_ring, e)
    /\ canon_before' = [tag |-> "none"]
    /\ canon_sorts' = 0
    /\ canon_is_sorted' = [tag |-> "none"]
    /\ UNCHANGED <<signature_vars, balance_vars, borromean_vars, bulletplus_vars, batch_vars, wire_vars, zero_vars, calls_vars, shape_vars, digits_vars, subaddress_vars, cryptonote_vars, ecdh_vars, binding_vars, quaternary_vars>>

RingInsert ==
    /\ Len(canon_ring) < MaxRing
    /\ \E e \in RingEnotes, index \in 0..Len(canon_ring) :
         canon_ring' = Ring_insert(canon_ring, index, e)
    /\ canon_before' = [tag |-> "none"]
    /\ canon_sorts' = 0
    /\ canon_is_sorted' = [tag |-> "none"]
    /\ UNCHANGED <<signature_vars, balance_vars, borromean_vars, bulletplus_vars, batch_vars, wire_vars, zero_vars, calls_vars, shape_vars, digits_vars, subaddress_vars, cryptonote_vars, ecdh_vars, binding_vars, quaternary_vars>>

RingSort ==
    /\ canon_sorts < MaxSorts
    /\ canon_before' = [tag |-> "ring", ring |-> canon_ring]
    /\ canon_ring' = Ring_sort(canon_ring)
    /\ canon_sorts' = canon_sorts + 1
    /\ canon_is_sorted' = [tag |-> "none"]
    /\ UNCHANGED <<signature_vars, balance_vars, borromean_vars, bulletplus_vars, batch_vars, wire_vars, zero_vars, calls_vars, shape_vars, digits_vars, subaddress_vars, cryptonote_vars, ecdh_vars, binding_vars, quaternary_vars>>

RingIsSorted ==
    /\ canon_is_sorted.tag = "none"
    /\ canon_is_sorted' = [tag |-> "returned", value |-> Ring_is_sorted(canon_ring)]
    /\ UNCHANGED <<canon_ring, canon_before, canon_sorts>>
    /\ UNCHANGED <<signature_vars, balance_vars, borromean_vars, bulletplus_vars, batch_vars, wire_vars, zero_vars, calls_vars, shape_vars, digits_vars, subaddress_vars, cryptonote_vars, ecdh_vars, binding_vars, quaternary_vars>>

NextRing == RingPush \/ RingInsert \/ RingSort \/ RingIsSorted
SpecRing == InitRing /\ [][NextRing]_vars

(***************************************************************************)
(* The signing calls, watched for the secrets they leave in memory         *)
(***************************************************************************)
InitZero == NoSignature /\ NoBalance /\ NoBorromean /\ NoBulletplus /\ NoBatch /\ NoWire /\ NoCanon /\ NoZero /\ NoCalls /\ NoShape /\ NoDigits /\ NoSubaddress /\ NoCryptonote /\ NoEcdh /\ NoBinding /\ NoQuaternary

\* sign_unsorted reaches sign_internal for every ring
CLSAGSignInternal ==
    /\ zero_call.scheme = "none"
    /\ \E rg \in Rings, keys \in SignerKeys, b \in 0..MaxBlind, m \in Messages :
         LET sep == separate_ring(rg)
             enc == encode_rings(sep[1], sep[2])
         IN  /\ zero_call' = [scheme |-> "CLSAG", ring |-> rg, enote_keys |-> keys,
                              pseudo_out_blinding |-> Scalar_from(b), msg |-> m]
             /\ zero_memory' = clsag_sign_internal_memory(rg, sep[1], sep[2], enc[1], enc[2],
                                                          keys, Scalar_from(b), m)
    /\ UNCHANGED <<signature_vars, balance_vars, borromean_vars, bulletplus_vars, batch_vars, wire_vars, canon_vars, calls_vars, shape_vars, digits_vars, subaddress_vars, cryptonote_vars, ecdh_vars, binding_vars, quaternary_vars>>

MLSAGSignInternal ==
    /\ zero_call.scheme = "none"
    /\ \E rg \in Rings, keys \in SignerKeys, b \in 0..MaxBlind, m \in Messages :
         LET sep == separate_ring(rg)
             enc == encode_rings(sep[1], sep[2])
         IN  /\ zero_call' = [scheme |-> "MLSAG", ring |-> rg, enote_keys |-> keys,
                              pseudo_out_blinding |-> Scalar_from(b), msg |-> m]
             /\ zero_memory' = mlsag_sign_internal_memory(rg, sep[1], sep[2], enc[1], enc[2],
                                                          keys, Scalar_from(b), m)
    /\ UNCHANGED <<signature_vars, balance_vars, borromean_vars, bulletplus_vars, batch_vars, wire_vars, canon_vars, calls_vars, shape_vars, digits_vars, subaddress_vars, cryptonote_vars, ecdh_vars, binding_vars, quaternary_vars>>

NextZero == CLSAGSignInternal \/ MLSAGSignInternal
SpecZero == InitZero /\ [][NextZero]_vars

(***************************************************************************)
(* The calls in flight: a public function is entered, a function that has  *)
(* been entered calls one of its callees, the innermost function returns   *)
(***************************************************************************)
InitCalls == NoSignature /\ NoBalance /\ NoBorromean /\ NoBulletplus /\ NoBatch /\ NoWire /\ NoCanon /\ NoZero /\ NoCalls /\ NoShape /\ NoDigits /\ NoSubaddress /\ NoCryptonote /\ NoEcdh /\ NoBinding /\ NoQuaternary

EnterEntry ==
    /\ call_stack = << >>
    /\ \E f \in SigningEntries \cup VerificationEntries : call_stack' = <<f>>
    /\ UNCHANGED <<signature_vars, balance_vars, borromean_vars, bulletplus_vars, batch_vars, wire_vars, canon_vars, zero_vars, shape_vars, digits_vars, subaddress_vars, cryptonote_vars, ecdh_vars, binding_vars, quaternary_vars>>

CallCallee ==
    /\ call_stack # << >>
    /\ \E g \in Calls(call_stack[Len(call_stack)]) : call_stack' = Append(call_stack, g)
    /\ UNCHANGED <<signature_vars, balance_vars, borromean_vars, bulletplus_vars, batch_vars, wire_vars, canon_vars, zero_vars, shape_vars, digits_vars, subaddress_vars, cryptonote_vars, ecdh_vars, binding_vars, quaternary_vars>>

ReturnToCaller ==
    /\ call_stack # << >>
    /\ call_stack' = SubSeq(call_stack, 1, Len(call_stack) - 1)
    /\ UNCHANGED <<signature_vars, balance_vars, borromean_vars, bulletplus_vars, batch_vars, wire_vars, canon_vars, zero_vars, shape_vars, digits_vars, subaddress_vars, cryptonote_vars, ecdh_vars, binding_vars, quaternary_vars>>

NextCalls == EnterEntry \/ CallCallee \/ ReturnToCaller
SpecCalls == InitCalls /\ [][NextCalls]_vars

(***************************************************************************)
(* The verifiers, handed signatures and rings of any two sizes             *)
(***************************************************************************)
InitShape == NoSignature /\ NoBalance /\ NoBorromean /\ NoBulletplus /\ NoBatch /\ NoWire /\ NoCanon /\ NoZero /\ NoCalls /\ NoShape /\ NoDigits /\ NoSubaddress /\ NoCryptonote /\ NoEcdh /\ NoBinding /\ NoQuaternary

\* a verification call of the scheme returns
ShapeVerified(scheme, fn, a, rg, result) ==
    /\ shape_call.fn = "none"
    /\ shape_call' = [fn |-> fn, scheme |-> scheme, signature |-> a.signature, ring |-> rg,
                      pseudo_out |-> a.pseudo_out]
    /\ shape_result' = result
    /\ UNCHANGED <<signature_vars, balance_vars, borromean_vars, bulletplus_vars, batch_vars, wire_vars, canon_vars, zero_vars, calls_vars, digits_vars, subaddress_vars, cryptonote_vars, ecdh_vars, binding_vars, quaternary_vars>>

CLSAGVerifyShape ==
    \E a \in ShapeSignatures("CLSAG"), rg \in Rings :
        ShapeVerified("CLSAG", "verify", a, rg,
                      clsag_verify(a.signature, rg, a.pseudo_out, <<49, 50>>))

CLSAGVerifyUnsortedShape ==
    \E a \in ShapeSignatures("CLSAG"), rg \in Rings :
        ShapeVerified("CLSAG", "verify_unsorted", a, rg,
                      clsag_verify_unsorted(a.signature, rg, a.pseudo_out, <<49, 50>>))

MLSAGVerifyShape ==
    \E a \in ShapeSignatures("MLSAG"), rg \in Rings :
        ShapeVerified("MLSAG", "verify", a, rg,
                      mlsag_verify(a.signature, rg, a.pseudo_out, <<49, 50>>))

MLSAGVerifyUnsortedShape ==
    \E a \in ShapeSignatures("MLSAG"), rg \in Rings :
        ShapeVerified("MLSAG", "verify_unsorted", a, rg,
                      mlsag_verify_unsorted(a.signature, rg, a.pseudo_out, <<49, 50>>))

NextShape ==
    CLSAGVerifyShape \/ CLSAGVerifyUnsortedShape \/ MLSAGVerifyShape \/ MLSAGVerifyUnsortedShape
SpecShape == InitShape /\ [][NextShape]_vars


(***************************************************************************)
(* Ring signatures: completeness                                           *)
(***************************************************************************)
\* the caller's ring is canonically sorted, of size N >= 1, and holds the
\* signer's enote
SortedRingWithSigner ==
    /\ Len(ring) >= 1
    /\ Ring_is_sorted(ring)
    /\ position(ring, to_enote(enote_keys)) # -1

CalledSign(scheme, fn) == pc # "start" /\ sign_call = [scheme |-> scheme, fn |-> fn]

\* the verification call was made through fn on the arguments as returned
VerifiedAsReturned(fn) ==
    pc = "verified" /\ verify_call.fn = fn /\ verify_call.kind = "none"

\* C1: CLSAG completeness. On every sorted ring of size N >= 1 holding the
\* signer's enote at any index, for every pseudo-output blinding and every
\* message, CLSAGSignature::sign returns Ok with the pseudo-output
\* commit(value, r'), and CLSAGSignature::verify of what it returned, on the
\* same ring and message, returns Ok.
C1_ClsagCompleteness ==
    /\ (CalledSign("CLSAG", "sign") /\ SortedRingWithSigner) =>
          /\ sign_result.tag = "Ok"
          /\ sign_result.pseudo_out = commit(enote_keys.value, pseudo_out_blinding)
    /\ (CalledSign("CLSAG", "sign") /\ VerifiedAsReturned("verify")) =>
          verify_result = [tag |-> "Ok"]

\* a CLSAG signature on a sorted ring of two or more enotes by the signer in
\* the last slot was verified as returned, and accepted
C1_Witness ==
    /\ CalledSign("CLSAG", "sign") /\ VerifiedAsReturned("verify")
    /\ Len(ring) >= 2
    /\ position(ring, to_enote(enote_keys)) = Len(ring) - 1
    /\ enote_keys.owner # Scalar_zero
    /\ verify_result = [tag |-> "Ok"]

\* C2: MLSAG completeness. On every sorted ring of size N >= 1 holding the
\* signer's enote at any index, for every pseudo-output blinding and every
\* message, MLSAGSignature::sign returns Ok, the stored e_0 is a computed
\* challenge and never the filler scalar, and MLSAGSignature::verify of what
\* was returned, on the same ring and message, returns Ok.
C2_MlsagCompleteness ==
    /\ (CalledSign("MLSAG", "sign") /\ SortedRingWithSigner) =>
          /\ sign_result.tag = "Ok"
          /\ sign_result.pseudo_out = commit(enote_keys.value, pseudo_out_blinding)
          /\ sign_result.signature.e_0 # FILLER_SCALAR
          /\ sign_result.signature.e_0 \in 0..(BASEPOINT_ORDER - 1)
    /\ (CalledSign("MLSAG", "sign") /\ VerifiedAsReturned("verify")) =>
          verify_result = [tag |-> "Ok"]

\* an MLSAG signature on a sorted ring of the full length by a signer in a
\* slot other than the first, with a commitment key that is not zero, was
\* verified as returned, and accepted
C2_Witness ==
    /\ CalledSign("MLSAG", "sign") /\ VerifiedAsReturned("verify")
    /\ Len(ring) >= 2
    /\ position(ring, to_enote(enote_keys)) >= 1
    /\ enote_keys.blinding # pseudo_out_blinding
    /\ verify_result = [tag |-> "Ok"]

(***************************************************************************)
(* Ring signatures: soundness, key images and the guards                   *)
(***************************************************************************)
\* the verification call was made with one of the arguments altered
AlteredKinds == {"msg", "ring_order", "pseudo_out", "s", "challenge"}

\* C3: ring signature soundness. For a signature that CLSAG or MLSAG sign
\* returned, verification (verify or verify_unsorted) returns an error when
\* the message, the order of the ring, the pseudo-output, one of the s
\* scalars or the stored challenge is changed.
C3_Soundness ==
    (pc = "verified" /\ sign_call.fn = "sign" /\ verify_call.kind \in AlteredKinds) =>
        verify_result.tag = "Err"

\* C4: key-image stability. Every signature that sign or sign_unsorted of
\* either scheme returns carries the key image enote_keys.get_key_image(),
\* whatever the ring, the signer's slot, the pseudo-output blinding and the
\* message.
C4_KeyImageStability ==
    (pc # "start" /\ sign_call.fn \in {"sign", "sign_unsorted"} /\ sign_result.tag = "Ok") =>
        sign_result.signature.key_image = EnoteKeys_get_key_image(enote_keys)

\* a signer with an owner key that is not zero signed, through sign_unsorted,
\* from a slot other than the first
C4_Witness ==
    /\ pc # "start" /\ sign_call.fn = "sign_unsorted" /\ sign_result.tag = "Ok"
    /\ enote_keys.owner # Scalar_zero
    /\ position(ring, to_enote(enote_keys)) >= 1
    /\ sign_result.signature.key_image # IDENTITY

\* the 64-byte encoding (owner || commitment) of an enote
Encoding64(e) ==
    batch_encode_points(<<e.owner>>)[1] \o batch_encode_points(<<e.commitment>>)[1]

\* the encodings of the ring are in strictly ascending order
StrictlyAscending(r) ==
    \A i \in 1..Len(r) : \A k \in (i + 1)..Len(r) : BytesLess(Encoding64(r[i]), Encoding64(r[k]))

HasDuplicate(r) == \E i \in 1..Len(r) : \E k \in (i + 1)..Len(r) : r[i] = r[k]

\* C5: the ring-sorting guard. sign and verify of both schemes return
\* Err(UnsortedRing) for every ring of more than one enote whose encodings
\* are not strictly ascending, which every ring with a repeated enote is;
\* rings of size 0 or 1 never get that error.
C5_SortingGuard ==
    /\ (pc # "start" /\ sign_call.fn = "sign") =>
          /\ (Len(ring) > 1 /\ ~StrictlyAscending(ring)) => sign_result = Err("UnsortedRing")
          /\ (Len(ring) > 1 /\ HasDuplicate(ring)) => sign_result = Err("UnsortedRing")
          /\ Len(ring) <= 1 => sign_result # Err("UnsortedRing")
    /\ (pc = "verified" /\ verify_call.fn = "verify") =>
          /\ (Len(verify_call.ring) > 1 /\ ~StrictlyAscending(verify_call.ring)) =>
                verify_result = Err("UnsortedRing")
          /\ (Len(verify_call.ring) > 1 /\ HasDuplicate(verify_call.ring)) =>
                verify_result = Err("UnsortedRing")
          /\ Len(verify_call.ring) <= 1 => verify_result # Err("UnsortedRing")

\* verify of a signature was refused for a ring that holds the same enote
\* twice
C5_Witness ==
    /\ pc = "verified" /\ verify_call.fn = "verify"
    /\ HasDuplicate(verify_call.ring)
    /\ verify_result = Err("UnsortedRing")

\* no enote of the ring is the signer's, in owner key and in commitment
SignerAbsent == \A i \in 1..Len(ring) : ring[i] # to_enote(enote_keys)

\* C6 as stated: every signing entry point returns Err(EnoteNotInRing)
\* whenever no enote of the ring equals the signer's in both owner key and
\* commitment.
C6_Membership ==
    (pc # "start" /\ SignerAbsent) => sign_result = Err("EnoteNotInRing")

\* C6: enote membership. Whenever no enote of the ring equals the signer's,
\* no signing entry point returns a signature; sign_unsorted and
\* sign_and_sort return Err(EnoteNotInRing), and so does sign of either
\* scheme unless the ring fails the sorting guard, which is checked first and
\* then answers Err(UnsortedRing).
C6_MembershipAfterGuard ==
    (pc # "start" /\ SignerAbsent) =>
        /\ sign_result.tag = "Err"
        /\ sign_call.fn \in {"sign_unsorted", "sign_and_sort"} =>
              sign_result = Err("EnoteNotInRing")
        /\ sign_call.fn = "sign" =>
              sign_result = IF Len(ring) > 1 /\ ~StrictlyAscending(ring)
                            THEN Err("UnsortedRing") ELSE Err("EnoteNotInRing")

\* a signer holding the owner key of a ring enote, with another value, was
\* refused by sign on a sorted ring
C6_Witness ==
    /\ pc # "start" /\ SignerAbsent /\ sign_call.fn = "sign"
    /\ \E i \in 1..Len(ring) : ring[i].owner = to_enote(enote_keys).owner
    /\ Len(ring) > 1 /\ StrictlyAscending(ring)
    /\ sign_result = Err("EnoteNotInRing")

\* C7: the unsorted variants. On a ring in any order, of size >= 1, that
\* holds the signer's enote, sign_unsorted of either scheme returns Ok;
\* verify_unsorted of what it returned on the ring in the same order returns
\* Ok, and on any other ordering of the same enotes Err(Invalid).
C7_UnsortedVariants ==
    /\ (pc # "start" /\ sign_call.fn = "sign_unsorted" /\ Len(ring) >= 1 /\ ~SignerAbsent) =>
          sign_result.tag = "Ok"
    /\ (pc = "verified" /\ sign_call.fn = "sign_unsorted" /\ verify_call.fn = "verify_unsorted") =>
          /\ verify_call.kind = "none" => verify_result = [tag |-> "Ok"]
          /\ verify_call.kind = "ring_order" => verify_result = Err("Invalid")

\* a signature made by sign_unsorted on a ring that is not sorted was refused
\* by verify_unsorted on another ordering of the ring
C7_Witness ==
    /\ pc = "verified" /\ sign_call.fn = "sign_unsorted" /\ verify_call.fn = "verify_unsorted"
    /\ ~StrictlyAscending(ring)
    /\ verify_call.kind = "ring_order"
    /\ verify_result = Err("Invalid")

(***************************************************************************)
(* Commitments                                                             *)
(***************************************************************************)
\* the sums of the values and of the blindings committed to, in the scalars
RECURSIVE ValueSum(_)
ValueSum(openings) ==
    IF openings = << >> THEN Scalar_zero
    ELSE SAdd(Scalar_from(Head(openings).value), ValueSum(Tail(openings)))

RECURSIVE BlindingSum(_)
BlindingSum(openings) ==
    IF openings = << >> THEN Scalar_zero
    ELSE SAdd(Head(openings).blinding, BlindingSum(Tail(openings)))

\* C8: for commitments built as commit(v_i, r_i), is_balanced returns a
\* boolean, also for an empty input or output list, and it returns true
\* exactly when the input values sum to the output values plus extra and the
\* input blindings sum to the output blindings, modulo the group order
C8_Homomorphism ==
    balanced.tag = "returned" =>
        /\ balanced.value \in BOOLEAN
        /\ balanced.value =
              ( /\ ValueSum(in_openings) = SAdd(ValueSum(out_openings), Scalar_from(extra))
                /\ BlindingSum(in_openings) = BlindingSum(out_openings) )

\* a balance of two inputs against two outputs and a fee, with blindings that
\* cancel only modulo the group order
C8_Witness ==
    /\ balanced.tag = "returned"
    /\ balanced.value = TRUE
    /\ Len(in_commitments) = 2
    /\ Len(out_commitments) = 2
    /\ extra = 1
    /\ in_openings[1].blinding # in_openings[2].blinding

(***************************************************************************)
(* Borromean range proofs                                                  *)
(***************************************************************************)
\* C9: prove returns Ok for every value and blinding, the rings that verify
\* rebuilds from the digit commitments are the prover's rings, and verify
\* returns Ok on the commitment and the proof that prove returned: the
\* recomputed e_0 is the stored one, whatever the signer indices
C9_BorromeanCompleteness ==
    /\ borromean_proved.tag # "none" =>
          /\ borromean_proved.tag = "Ok"
          /\ borromean_verify_rings(borromean_proved.proof.c_i) =
                borromean_prove_rings(range_value, range_blinding, tape).rings
    /\ borromean_verified.tag # "none" => borromean_verified.tag = "Ok"

\* the proof of the largest value, whose digits are all 3, has been verified
C9_Witness ==
    /\ range_value = MAX_VALUE
    /\ range_blinding # Scalar_zero
    /\ borromean_proved.tag = "Ok"
    /\ borromean_verified.tag = "Ok"

(***************************************************************************)
(* Bulletproofs+ range proofs                                              *)
(***************************************************************************)
\* C10: for 1 <= m <= MAX_AGGREGATION_SIZE values with m blindings, prove
\* returns exactly the m commitments commit(values[i], blindings[i]), in
\* order and unpadded, and verify on what prove returned builds the statement
\* of the proof and returns Ok
C10_ProveVerifyAgreement ==
    Len(values) \in 1..MAX_AGGREGATION_SIZE =>
        /\ bulletplus_proved.tag # "none" =>
              /\ bulletplus_proved.tag = "Ok"
              /\ Len(bulletplus_proved.commitments) = Len(values)
              /\ \A i \in 1..Len(values) :
                    bulletplus_proved.commitments[i] = commit(values[i], blindings[i])
              /\ verifier_statement(bulletplus_proved.commitments).tag = "Ok"
              /\ bulletplus_proved.proof =
                    Transcript(TRANSCRIPT_LABEL,
                               verifier_statement(bulletplus_proved.commitments))
        /\ bulletplus_verified.tag # "none" => bulletplus_verified.tag = "Ok"

\* a proof of three values, padded to four for the statement, has been verified
C10_Witness ==
    /\ Len(values) = 3
    /\ values[1] # values[3]
    /\ bulletplus_proved.tag = "Ok"
    /\ Len(bulletplus_proved.proof.commitments) = 4
    /\ bulletplus_verified.tag = "Ok"

\* the pairs of a batch that verify on their own
VerifiesAlone(i) ==
    bulletplus_verify(batch_commitments[i], batch_proofs[i]).tag = "Ok"

\* C11: batch_verify returns Ok exactly when every pair (commitments[i],
\* proofs[i]) verifies on its own; the shards are consecutive runs of at most
\* MAX_BATCH_GROUP_SIZE pairs that together are the input, in order, with
\* the same runs for the commitments and for the proofs
C11_BatchCorrectness ==
    batch_verified.tag # "none" =>
        LET commitment_groups == chunks(batch_commitments, MAX_BATCH_GROUP_SIZE)
            proof_groups == chunks(batch_proofs, MAX_BATCH_GROUP_SIZE)
        IN  /\ (batch_verified.tag = "Ok") <=>
                  \A i \in 1..Len(batch_commitments) : VerifiesAlone(i)
            /\ Concat(commitment_groups) = batch_commitments
            /\ Concat(proof_groups) = batch_proofs
            /\ Len(commitment_groups) = Len(proof_groups)
            /\ \A g \in 1..Len(commitment_groups) :
                  /\ Len(commitment_groups[g]) \in 1..MAX_BATCH_GROUP_SIZE
                  /\ Len(commitment_groups[g]) = Len(proof_groups[g])

\* a batch of two shards whose only bad pair is the last one, alone in the
\* second shard, has been refused
C11_Witness ==
    /\ Len(batch_commitments) = MAX_BATCH_GROUP_SIZE + 1
    /\ \A i \in 1..MAX_BATCH_GROUP_SIZE : VerifiesAlone(i)
    /\ ~VerifiesAlone(MAX_BATCH_GROUP_SIZE + 1)
    /\ Len(batch_commitments[MAX_BATCH_GROUP_SIZE + 1]) <= MAX_AGGREGATION_SIZE
    /\ batch_verified = Err("Invalid")

\* C12: prove returns Err(TooLargeAggregationSize) exactly for more than
\* MAX_AGGREGATION_SIZE values (with as many blindings), and batch_verify
\* returns it exactly when, for as many proofs as groups, some group has
\* more than MAX_AGGREGATION_SIZE commitments
C12_AggregationLimit ==
    /\ batch_proved.tag # "none" =>
          /\ Len(batch_values) = Len(batch_blindings)
          /\ (batch_proved = Err("TooLargeAggregationSize")) <=>
                (Len(batch_values) > MAX_AGGREGATION_SIZE)
    /\ batch_verified.tag # "none" =>
          /\ Len(batch_commitments) = Len(batch_proofs)
          /\ (batch_verified = Err("TooLargeAggregationSize")) <=>
                (\E i \in 1..Len(batch_commitments) :
                    Len(batch_commitments[i]) > MAX_AGGREGATION_SIZE)

\* prove has refused one value too many, and batch_verify a batch whose
\* last group is one commitment too large; a group of the largest size is
\* in the batch too
C12_Witness ==
    /\ batch_proved = Err("TooLargeAggregationSize")
    /\ Len(batch_commitments) = 2
    /\ Len(batch_commitments[1]) = MAX_AGGREGATION_SIZE
    /\ Len(batch_commitments[2]) = MAX_AGGREGATION_SIZE + 1
    /\ batch_verified = Err("TooLargeAggregationSize")

\* C13: both provers return Err(OutOfRange) exactly for a value greater than
\* MAX_VALUE, which no value of the type is
C13_ValueRejection ==
    /\ borromean_proved.tag # "none" =>
          /\ (borromean_proved = Err("OutOfRange")) <=> (range_value > MAX_VALUE)
          /\ range_value \in U64 => borromean_proved # Err("OutOfRange")
    /\ bulletplus_proved.tag # "none" =>
          /\ (bulletplus_proved = Err("OutOfRange")) <=>
                (\E i \in 1..Len(values) : values[i] > MAX_VALUE)
          /\ (\A i \in 1..Len(values) : values[i] \in U64) =>
                bulletplus_proved # Err("OutOfRange")

\* the largest value of the type has been proved both ways
C13_Witness ==
    /\ range_value = (2 ^ BIT_RANGE) - 1
    /\ borromean_proved.tag = "Ok"
    /\ values = <<range_value>>
    /\ bulletplus_proved.tag = "Ok"


\* what C14 says of everything but the value a Scalar comes back as: to_bytes
\* gives 32 bytes for a Scalar, a RistrettoPoint and a Commitment; a point, a
\* commitment, a signature and a proof come back from their own bytes as they
\* were; Scalar::from_bytes and RistrettoPoint::from_bytes refuse a slice of
\* another length and a slice that is no canonical encoding; a restored
\* signature or proof verifies as the original does
WireUnaltered == wire_decoded.tag # "none" /\ wire_input = wire_bytes.bytes
C14_Common ==
    /\ wire_bytes.tag # "none" =>
         /\ wire_bytes.tag = "Ok"
         /\ wire_object.kind = "Scalar" => Len(wire_bytes.bytes) = SCALAR_LENGTH
         /\ wire_object.kind \in {"RistrettoPoint", "Commitment"} =>
              Len(wire_bytes.bytes) = POINT_LENGTH
    /\ WireUnaltered /\ wire_object.kind # "Scalar" =>
         wire_decoded = [tag |-> "Ok", value |-> wire_value(wire_object)]
    /\ /\ wire_decoded.tag # "none"
       /\ wire_object.kind = "Scalar"
       /\ Len(wire_input) # SCALAR_LENGTH \/ wire_input[1] >= BASEPOINT_ORDER
       => wire_decoded = Err("DecodingError")
    /\ /\ wire_decoded.tag # "none"
       /\ wire_object.kind = "RistrettoPoint"
       /\ Len(wire_input) # POINT_LENGTH \/ wire_input[1] >= BASEPOINT_ORDER
       => wire_decoded = Err("DecodingError")
    /\ wire_verified.tag # "none" => wire_verified.restored = wire_verified.original

C15_WrongLengthIsError ==
    /\ wire_decoded.tag # "none"
    /\ wire_object.kind = "Commitment"
    /\ Len(wire_input) # POINT_LENGTH
    => wire_decoded = Err("DecodingError")


\* C16: when the ring handed to MLSAGSignature::sign_and_sort holds the
\* signer's enote, in any order and with or without duplicates, the call
\* leaves the ring sorted and free of duplicates, returns what
\* MLSAGSignature::sign returns for that sorted ring, and
\* MLSAGSignature::verify with the ring as left by the call returns Ok
C16_SignAndSortAsSign ==
    /\ sign_call = [scheme |-> "MLSAG", fn |-> "sign_and_sort"]
    /\ \E i \in 1..Len(ring) : ring[i] = to_enote(enote_keys)
    => /\ Ring_is_sorted(ring)
       /\ sign_result = mlsag_sign(ring, enote_keys, pseudo_out_blinding, msg)
       /\ sign_result.tag = "Ok"
       /\ mlsag_verify(sign_result.signature, ring, sign_result.pseudo_out, msg) = [tag |-> "Ok"]


\* the 64-byte encoding of an enote: encoded owner || encoded commitment
EnoteEncoding(e) == encode_point(e.owner) \o encode_point(e.commitment)
EnotesOf(r) == { r[i] : i \in 1..Len(r) }

C18_SecretsZeroized ==
    zero_call.scheme # "none" =>
        /\ zero_memory.commitment_key = Scalar_zero
        /\ zero_memory.seed.tag = "built" =>
             \A i \in 1..Len(zero_memory.seed.bytes) : zero_memory.seed.bytes[i] = 0
        /\ zero_memory.enote_keys = [owner |-> Scalar_zero, value |-> 0, blinding |-> Scalar_zero]


\* C19: under a signing or proving function no variable-time multiscalar
\* multiplication is ever entered, and wherever one is entered the outermost
\* function is a verifying one
C19_ConstantTimeSigning ==
    \A i \in 1..Len(call_stack) :
        /\ call_stack[1] \in SigningEntries => call_stack[i] \notin VartimeOps
        /\ call_stack[i] \in VartimeOps => call_stack[1] \in VerificationEntries

\* Borromean proving has reached the group operations of a chameleon hash
C19_Witness ==
    /\ Len(call_stack) = 4
    /\ call_stack[1] = "borromean_prove"
    /\ call_stack[3] = "chameleon_h"
    /\ call_stack[4] \in ConstantTimeOps


\* whether the shape of the signature of the call fits the ring of the call
ShapeFits ==
    IF shape_call.scheme = "CLSAG"
    THEN Len(shape_call.signature.s) = Len(shape_call.ring)
    ELSE /\ Len(shape_call.signature.s[1]) = Len(shape_call.signature.s[2])
         /\ Len(shape_call.signature.s[1]) = Len(shape_call.ring)

\* C20: verify_unsorted, and verify on a sorted ring, return Err(Malformed)
\* when the s vector of a CLSAG signature is not as long as the ring, or when
\* the two s layers of an MLSAG signature differ in length from each other or
\* from the ring; no verification call aborts on an index out of bounds
C20_ShapeChecked ==
    shape_call.fn # "none" =>
        /\ shape_result.tag # "panic"
        /\ /\ ~ShapeFits
           /\ shape_call.fn = "verify_unsorted" \/ Ring_is_sorted(shape_call.ring)
           => shape_result = Err("Malformed")

\* a signature with fewer scalars than the ring has enotes was refused
C20_Witness ==
    /\ shape_call.fn = "verify_unsorted"
    /\ shape_call.scheme = "CLSAG"
    /\ Len(shape_call.signature.s) < Len(shape_call.ring)
    /\ shape_result = Err("Malformed")

\* C21: a verification against a ring of size 0 returns an error, whatever
\* the signature (one with empty s vectors included), the pseudo-output and
\* the entry point
C21_EmptyRingRejected ==
    /\ shape_call.fn # "none"
    /\ Len(shape_call.ring) = 0
    => shape_result.tag = "Err"

\* the padded list is pad_len copies of `zero` and then `real`, in order
PaddedInFront(padded, real, zero, pad_len) ==
    /\ pad_len >= 0
    /\ Len(padded) = pad_len + Len(real)
    /\ \A i \in 1..pad_len : padded[i] = zero
    /\ \A i \in 1..Len(real) : padded[pad_len + i] = real[i]

\* the padding is to the smallest power of two that is at least count, and
\* the index of the parameters is one of the pre-generated sets, the one
\* generated for that power of two
PaddingRule(padding, count) ==
    /\ padding.n >= count
    /\ padding.n = 2 ^ padding.power
    /\ padding.n = 1 \/ padding.n \div 2 < count
    /\ padding.pad_len = padding.n - count
    /\ padding.power \in 0..MaxAggregationPower
    /\ Len(RANGE_PARAMETERS) = MaxAggregationPower + 1
    /\ RANGE_PARAMETERS[padding.power + 1].aggregation_factor = padding.n

\* C22: for every aggregation size m in 1 ..= MAX_AGGREGATION_SIZE, prove and
\* batch_verify pad to n, the smallest power of two that is at least m, by
\* putting n - m zero commitments in front of the real ones, which keep
\* their order (prove puts n - m zero openings of value 0 and blinding 0 in
\* front of the real openings too), and both take RANGE_PARAMETERS[log2(n)],
\* an index within the pre-generated parameter sets
C22_PaddingRule ==
    /\ Len(values) \in 1..MAX_AGGREGATION_SIZE
    /\ bulletplus_proved.tag # "none"
    => LET m == Len(values)
           prover == prover_padding(values, blindings)
       IN  /\ PaddingRule(prover, m)
           /\ \A i \in 1..m : prover.commitments[i] = commit(values[i], blindings[i])
           /\ PaddedInFront(prover.padded_commitments, prover.commitments,
                            PMul(Scalar_zero, G_POINT), prover.n - m)
           /\ PaddedInFront(prover.padded_openings,
                            [i \in 1..m |-> [value |-> values[i], blinding |-> blindings[i]]],
                            [value |-> 0, blinding |-> Scalar_zero], prover.n - m)
           /\ bulletplus_proved.tag = "Ok"
           /\ bulletplus_proved.proof.commitments = prover.padded_commitments
           /\ bulletplus_proved.proof.aggregation_factor = prover.n
           /\ bulletplus_verified.tag # "none" =>
                 LET verifier == verifier_padding(bulletplus_proved.commitments)
                     statement == verifier_statement(bulletplus_proved.commitments)
                 IN  /\ PaddingRule(verifier, m)
                     /\ PaddedInFront(verifier.padded_commitments, bulletplus_proved.commitments,
                                      PMul(Scalar_zero, G_POINT), verifier.n - m)
                     /\ statement.tag = "Ok"
                     /\ statement.commitments = verifier.padded_commitments
                     /\ statement.generators.aggregation_factor = verifier.n

\* three values were proved and verified: one zero commitment was put in
\* front of the three real ones, and the parameters for four were taken
C22_Witness ==
    /\ Len(values) = 3
    /\ bulletplus_proved.tag = "Ok"
    /\ bulletplus_verified.tag = "Ok"
    /\ prover_padding(values, blindings).pad_len = 1
    /\ verifier_padding(bulletplus_proved.commitments).power = 2
    /\ bulletplus_proved.proof.commitments[1] = ZERO_COMMITMENT
    /\ bulletplus_proved.proof.commitments[2] # ZERO_COMMITMENT

\* C23: prove(v, r) returns the commitment commit(v, r): the digit
\* commitments are r_i * G + d_i * 4^i * H for the base-4 digits d_i of v, the
\* last blinding is r minus the sum of the others, and they sum to the
\* commitment; verify returns Err(Invalid) whenever the digit commitments of
\* the proof handed to it do not sum to the commitment handed to it
C23_DigitCommitments ==
    /\ borromean_proved.tag # "none" =>
          LET built == borromean_prove_rings(range_value, range_blinding, tape)
              last == NUMBER_OF_PROOF_DIGITS
          IN  /\ borromean_proved.tag = "Ok"
              /\ borromean_proved.commitment = commit(range_value, range_blinding)
              /\ borromean_proved.proof.c_i = built.c
              /\ Len(built.c) = NUMBER_OF_PROOF_DIGITS
              /\ \A i \in 1..NUMBER_OF_PROOF_DIGITS :
                    built.c[i] =
                        PAdd(PMul(built.r[i], PEDERSEN_G_POINT),
                             PMul(Scalar_from(built.digits[i] * (4 ^ (i - 1))), PEDERSEN_H_POINT))
              /\ built.r[last] = SSub(range_blinding, SumScalars(SubSeq(built.r, 1, last - 1)))
              /\ PSum(borromean_proved.proof.c_i) = borromean_proved.commitment
    /\ /\ borromean_verified.tag # "none"
       /\ PSum(digits_call.proof.c_i) # digits_call.commitment
       => borromean_verified = Err("Invalid")

\* the proof of a value with two digits other than 0 was refused against the
\* commitment to another value
C23_Witness ==
    /\ range_value = 6
    /\ range_blinding # Scalar_zero
    /\ borromean_proved.tag = "Ok"
    /\ digits_call.tag = "verify"
    /\ digits_call.proof = borromean_proved.proof
    /\ digits_call.commitment = PAdd(borromean_proved.commitment, PEDERSEN_H_POINT)
    /\ borromean_verified = Err("Invalid")

\* C24: for a wallet whose table was filled by init and init_coordinates,
\* recover_coordinates of the one-time key derived from the subaddress at
\* covered coordinates c returns Ok(c), and the subaddresses at distinct
\* covered coordinates have distinct spend keys
C24_CoordinateRecovery ==
    /\ sub_call.fn = "recover_coordinates" =>
        \A c \in covered :
            LET sub == WalletGetSubaddress(wallet, c)
            IN  (/\ sub.tag = "Ok"
                 /\ sub_call.public_key = SubaddressPublic_derive_key(sub.subaddress, sub_call.secret))
                => (sub_result.tag = "Ok" /\ sub_result.coords = c)
    /\ \A c1 \in covered, c2 \in covered :
        c1 # c2 => WalletGetSubaddress(wallet, c1).subaddress.spend
                    # WalletGetSubaddress(wallet, c2).subaddress.spend

\* the answers of get_subaddress in the states of the table, and the
\* coordinates initialized when init(x, y) has returned
TableStates ==
    /\ sub_call.fn = "get_subaddress" =>
        LET c == sub_call.coordinates
        IN  /\ ~touched => (sub_result.tag = "Err" /\ sub_result.err = "UninitializedTable")
            /\ (wallet.keys.table.tag = "Some" /\ c \notin ever)
                => (sub_result.tag = "Err" /\ sub_result.err = "UninitializedCoordinates")
            /\ c \in covered => sub_result.tag = "Ok"
    /\ (sub_call.fn = "init" /\ sub_result.tag = "Ok") =>
        \A a \in 0..(sub_call.x - 1), b \in 0..(sub_call.y - 1) :
            WalletGetSubaddress(wallet, <<a, b>>).tag = "Ok"

\* a call of init or init_coordinates leaves initialized what was initialized
StaysInitialized ==
    sub_call'.fn \in {"init", "init_coordinates"} =>
        \A c \in Coordinates :
            WalletGetSubaddress(wallet, c).tag = "Ok" => WalletGetSubaddress(wallet', c).tag = "Ok"

C25_SendReceive ==
    /\ (cn_sent.fn = "send" /\ cn_received.fn = "receive") =>
        /\ cn_received.result.tag = "Some"
        /\ cn_received.result.value.value = cn_sent.amount
        /\ cn_received.result.value.blinding = cn_sent.blinding
        /\ G_mul(cn_received.result.value.owner) = cn_sent.recipient.public_key
    /\ cn_sent.fn = "send_with_key" =>
        /\ cn_sent.recipient.transaction_key.tag = "None"
        /\ cn_received.fn = "receive" => cn_received.result.tag = "None"
        /\ cn_received.fn = "receive_with_key" =>
            (cn_received.result.tag = "Some"
                <=> cn_received.transaction_key = G_mul(cn_sent.transaction_sk))

\* the same for receivers whose private view key is not zero
C25_NonzeroView == cn_keys.view # Scalar_zero => C25_SendReceive

\* C26: the two parties compute the same shared secret and the same view tag,
\* the one decrypts the amount the other encrypted, and the public key of
\* the private key derived with the secret is the public key derived with it
C26_EcdhAgreement ==
    /\ ecdh_call.fn = "shared_secret" =>
        /\ ecdh_call.first = ecdh_call.second
        /\ ecdh_call.first_tag = ecdh_call.second_tag
    /\ ecdh_call.fn = "encrypt_amount" => ecdh_call.decrypted = ecdh_call.amount
    /\ ecdh_call.fn = "derive_key" => ecdh_call.from_private = ecdh_call.from_public

\* an amount that encryption changed was decrypted by the other party, the
\* keys of the two parties being different and not zero
C26_Witness ==
    /\ ecdh_call.fn = "encrypt_amount"
    /\ ecdh_call.encrypted # ecdh_call.amount
    /\ ecdh_call.decrypted = ecdh_call.amount
    /\ ecdh_keys.sk1 # ecdh_keys.sk2
    /\ ecdh_keys.sk1 # Scalar_zero
    /\ ecdh_keys.sk2 # Scalar_zero

\* the k-th scalar of the chain over the seed that starts from the filler
\* scalar
RECURSIVE SeedChainAt(_, _)
SeedChainAt(seed, k) ==
    IF k = 0 THEN FILLER_SCALAR
    ELSE h_scalar(Scalar_bytes(SeedChainAt(seed, k - 1)) \o seed)

\* the functions reached from the functions fs by at most k calls
RECURSIVE Reached(_, _)
Reached(fs, k) ==
    IF k = 0 THEN fs ELSE Reached(fs \cup UNION { Calls(f) : f \in fs }, k - 1)
\* the longest chain of calls followed
MaxCallDepth == 6

\* the result of the signing call of the state, computed again from its
\* arguments
SignedAgain ==
    CASE sign_call.scheme = "CLSAG" /\ sign_call.fn = "sign" ->
            clsag_sign(ring, enote_keys, pseudo_out_blinding, msg)
      [] sign_call.scheme = "CLSAG" /\ sign_call.fn = "sign_unsorted" ->
            clsag_sign_unsorted(ring, enote_keys, pseudo_out_blinding, msg)
      [] sign_call.scheme = "MLSAG" /\ sign_call.fn = "sign" ->
            mlsag_sign(ring, enote_keys, pseudo_out_blinding, msg)
      [] sign_call.scheme = "MLSAG" /\ sign_call.fn = "sign_unsorted" ->
            mlsag_sign_unsorted(ring, enote_keys, pseudo_out_blinding, msg)

\* the seed of the signing call of the state: owner || pseudo_out_blinding || m
SigningSeed ==
    LET sep == separate_ring(ring)
        enc == encode_rings(sep[1], sep[2])
        sig == sign_result.signature
        m == IF sign_call.scheme = "CLSAG"
             THEN clsag_create_message(enc[1], enc[2], sign_result.pseudo_out,
                                       sig.key_image, sig.auxiliary, msg)
             ELSE mlsag_create_message(enc[1], enc[2], sign_result.pseudo_out, sig.key_image, msg)
    IN  Scalar_bytes(enote_keys.owner) \o Scalar_bytes(pseudo_out_blinding) \o m

C29_BindsCommitmentList ==
    (/\ binding_call.tag = "verify"
     /\ binding_call.commitments # bulletplus_proved.commitments
     /\ bulletplus_verify(bulletplus_proved.commitments, bulletplus_proved.proof).tag = "Ok")
    => bulletplus_verified.tag = "Err"

\* the same but for the lists that the padding of the verifier maps to the
\* statement of the proof
C29_BindsPaddedList ==
    (/\ binding_call.tag = "verify"
     /\ verifier_padding(binding_call.commitments).padded_commitments
            # verifier_padding(bulletplus_proved.commitments).padded_commitments
     /\ bulletplus_verify(bulletplus_proved.commitments, bulletplus_proved.proof).tag = "Ok")
    => bulletplus_verified.tag = "Err"

\* the value of base-4 digits, least significant first
RECURSIVE DigitsValue(_, _)
DigitsValue(digits, i) ==
    IF i > Len(digits) THEN 0 ELSE digits[i] * (4 ^ (i - 1)) + DigitsValue(digits, i + 1)

\* what holds of the locals of quaternary: no write past the array, digits
\* between 0 and 3, zeros above the digits written, and on return the
\* digits of n
QuaternaryDigits ==
    quat.tag # "none" =>
        /\ quat.tag # "panicked"
        /\ quat.st.x <= NUMBER_OF_PROOF_DIGITS
        /\ \A i \in 1..NUMBER_OF_PROOF_DIGITS :
              /\ quat.st.digits[i] \in 0..3
              /\ i > quat.st.x => quat.st.digits[i] = 0
        /\ quat.tag = "returned" =>
              /\ quat.st.digits = quaternary(quat.n)
              /\ DigitsValue(quat.st.digits, 1) = quat.n

\* C30: for every u64 n quaternary(n) terminates, writes no digit past the
\* end of the array (also for the largest n), every digit is between 0 and
\* 3, the digits above those written are 0, and the digits weighted by the
\* powers of 4 sum to n
C30_BaseFourDigits == [](QuaternaryDigits) /\ <>(quat.tag = "returned")

\* quaternary has returned for the largest value, with every digit written
\* and equal to 3
C30_Witness ==
    /\ quat.tag = "returned"
    /\ quat.n = MAX_VALUE
    /\ quat.st.x = NUMBER_OF_PROOF_DIGITS
    /\ \A i \in 1..NUMBER_OF_PROOF_DIGITS : quat.st.digits[i] = 3

====
